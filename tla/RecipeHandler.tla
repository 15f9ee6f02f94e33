---------------------------- MODULE RecipeHandler ----------------------------
(***************************************************************************)
(* A recipe and its handler in the OpenCL, the Level Zero or the SYCL      *)
(* runtime.  A recipe has two kernels; set_args selects one, gives it its  *)
(* arguments by index, and computes the range it is launched with; submit  *)
(* launches what the handler holds.  Any runtime call may fail in between. *)
(*                                                                         *)
(* args     per kernel, what was given for each index                      *)
(* range    what howmany left: work items, groups, or both                 *)
(* asked    the request the handler was last set up for without an error   *)
(* launch   the last launch: the rows of C (the matrices of a batch) that  *)
(*          each work-group updates, what it reads, and the request        *)
(***************************************************************************)
EXTENDS Integers, Sequences, FiniteSets, SequencesExt

CONSTANTS
    Dynamic,        \* a specialization constant that is not fixed
    Unset,
    Runtimes,       \* of "cl", "ze", "sycl"
    Recipes,        \* [kind, M, ldA, ldB, ldC, M_block_size]
    Requests,       \* [M, alpha, beta, A, B, C, ldA, ldB, ldC]; M is howmany of a batch
    LocalSizes,     \* work-group sizes of the kernels
    CallersRepeatM, \* callers pass a fixed M again
    MaxCalls

(* A fixed M is positive: if it is zero, and blocks have several rows, the *)
(* kernel takes its one block for a whole one.                             *)
ASSUME DynamicAssumption == Dynamic \notin Int
ASSUME RuntimesAssumption == Runtimes \subseteq {"cl", "ze", "sycl"}
ASSUME RecipesAssumption ==
    \A r \in Recipes :
        \/ r.kind = "small_gemm_batched"
        \/ /\ r.kind = "tall_and_skinny"
           /\ r.M = Dynamic \/ r.M \in Nat \ {0}
           /\ r.M_block_size \in Nat \ {0}
ASSUME RequestsAssumption == \A q \in Requests : q.M \in Nat
ASSUME LocalSizesAssumption ==
    \A l \in LocalSizes : l.gemm \in Nat \ {0} /\ l.gemm_beta0 \in Nat \ {0}

VARIABLES runtime, recipe, local_size, active_kernel, args, range, asked, launch, calls
vars == <<runtime, recipe, local_size, active_kernel, args, range, asked, launch, calls>>

Kernels == {"gemm", "gemm_beta0"}
IsDynamic(v) == v = Dynamic
Optional(b, v) == IF b THEN <<v>> ELSE <<>>

-----------------------------------------------------------------------------
(* The kernels: parameters are alpha, A, B, beta, C, and every memref is   *)
(* followed by its dynamic extents, then by its dynamic strides.           *)
Memrefs(r) ==
    IF r.kind = "tall_and_skinny"
    THEN [A |-> [shape |-> <<r.M, 1>>, stride |-> <<1, r.ldA>>],
          B |-> [shape |-> <<1, 1>>, stride |-> <<1, r.ldB>>],
          C |-> [shape |-> <<r.M, 1>>, stride |-> <<1, r.ldC>>]]
    ELSE [x \in {"A", "B", "C"} |-> [shape |-> <<1, 1, Dynamic>>, stride |-> <<1, 1, 1>>]]

DopeParams(name, field, static) ==
    FlattenSeq([k \in DOMAIN static |-> Optional(IsDynamic(static[k]), <<name, field, k>>)])
MemrefParams(name, ty) ==
    <<<<name>>>> \o DopeParams(name, "shape", ty.shape) \o DopeParams(name, "stride", ty.stride)
Signature(r) ==
    LET mem == Memrefs(r)
    IN  <<<<"alpha">>>> \o MemrefParams("A", mem.A) \o MemrefParams("B", mem.B)
            \o <<<<"beta">>>> \o MemrefParams("C", mem.C)

(* A quotient as the language rounds it, to zero.                          *)
Quotient(a, b) == IF a < 0 THEN -((-a) \div b) ELSE a \div b

-----------------------------------------------------------------------------
(* set_args.                                                               *)
Select(q) == IF q.beta = 0 THEN "gemm_beta0" ELSE "gemm"

MemrefArguments(r, q, x) ==
    LET M == Optional(IsDynamic(r.M), q.M)
    IN  IF r.kind = "small_gemm_batched" THEN <<q[x], q.M>>
        ELSE CASE x = "A" -> <<q.A>> \o M \o Optional(IsDynamic(r.ldA), q.ldA)
               [] x = "B" -> <<q.B>> \o Optional(IsDynamic(r.ldB), q.ldB)
               [] x = "C" -> <<q.C>> \o M \o Optional(IsDynamic(r.ldC), q.ldC)
Arguments(r, q) ==
    <<q.alpha>> \o MemrefArguments(r, q, "A") \o MemrefArguments(r, q, "B")
        \o <<q.beta>> \o MemrefArguments(r, q, "C")

HowMany(r, q) ==
    IF r.kind = "tall_and_skinny" THEN 1 + Quotient(q.M - 1, r.M_block_size) ELSE q.M

\* Mutant: the work-group size of the kernel that was active before.
RangeOfLast(kernel, num) ==
    [work_items |-> IF runtime = "ze" THEN Unset ELSE num * local_size[active_kernel],
     groups |-> IF runtime = "ze" THEN num ELSE Unset,
     local |-> IF runtime = "sycl" THEN local_size[active_kernel] ELSE Unset]

(* howmany of the three handlers, for the kernel that is active then.      *)
RangeOf(kernel, num) ==
    [work_items |-> IF runtime = "ze" THEN Unset ELSE num * local_size[kernel],
     groups |-> IF runtime = "ze" THEN num ELSE Unset,
     local |-> IF runtime = "sycl" THEN local_size[kernel] ELSE Unset]

Legal(r, q) == CallersRepeatM /\ ~IsDynamic(r.M) => q.M = r.M

(* Arguments of the wrong size, or for another recipe, are refused before  *)
(* anything changes.                                                       *)
Refuse == calls < MaxCalls /\ calls' = calls + 1
          /\ UNCHANGED <<runtime, recipe, local_size, active_kernel, args, range, asked, launch>>

Given(kernel, values, n) ==
    [args EXCEPT ![kernel] = [i \in DOMAIN @ |-> IF i <= n THEN values[i] ELSE @[i]]]

SetArgs(q) ==
    LET kernel == Select(q)
    IN  /\ calls < MaxCalls
        /\ Legal(recipe, q)
        /\ calls' = calls + 1
        /\ active_kernel' = kernel
        /\ args' = Given(kernel, Arguments(recipe, q), Len(Signature(recipe)))
        /\ range' = RangeOf(kernel, HowMany(recipe, q))
        /\ asked' = q
        /\ UNCHANGED <<runtime, recipe, local_size, launch>>

(* The runtime refuses argument n: a missing extension, a memory object of *)
(* no known type, an error of the driver.  What was done stays.            *)
SetArgsFails(q, n) ==
    LET kernel == Select(q)
    IN  /\ calls < MaxCalls
        /\ Legal(recipe, q)
        /\ calls' = calls + 1
        /\ active_kernel' = kernel
        /\ args' = Given(kernel, Arguments(recipe, q), n - 1)
        /\ asked' = Unset
        /\ UNCHANGED <<runtime, recipe, local_size, range, launch>>

-----------------------------------------------------------------------------
(* submit.  The runtime launches a kernel that has all its arguments, with *)
(* a range its work-group size fits in; nothing initialises the range.     *)
Groups ==
    CASE runtime = "cl" -> range.work_items \div local_size[active_kernel]
      [] runtime = "ze" -> range.groups
      [] runtime = "sycl" -> range.work_items \div range.local

Launchable ==
    /\ \A i \in DOMAIN args[active_kernel] : args[active_kernel][i] # Unset
    /\ range # Unset
    /\ runtime = "cl" => range.work_items % local_size[active_kernel] = 0
    /\ runtime = "sycl" => range.local = local_size[active_kernel]

(* What the active kernel finds as its parameters.                         *)
Param(p) ==
    args[active_kernel][CHOOSE i \in DOMAIN Signature(recipe) : Signature(recipe)[i] = p]
Dope(name, field, k) ==
    LET static == Memrefs(recipe)[name][field][k]
    IN  IF IsDynamic(static) THEN Param(<<name, field, k>>) ELSE static
Reads ==
    [alpha |-> Param(<<"alpha">>),
     beta |-> IF active_kernel = "gemm_beta0" THEN 0 ELSE Param(<<"beta">>),
     memrefs |-> [x \in DOMAIN Memrefs(recipe) |->
                     [ptr |-> Param(<<x>>),
                      shape |-> [k \in DOMAIN Memrefs(recipe)[x].shape |-> Dope(x, "shape", k)],
                      stride |-> [k \in DOMAIN Memrefs(recipe)[x].stride |-> Dope(x, "stride", k)]]]]

(* The rows a group gets: whole blocks if the fixed M is a multiple of the *)
(* block size, else what is left of M, up to a block.                      *)
Rows(gid) ==
    LET block == recipe.M_block_size
        m == gid * block
        left == Dope("C", "shape", 1) - m
        whole == ~IsDynamic(recipe.M) /\ recipe.M % block = 0
    IN  IF recipe.kind = "small_gemm_batched" THEN {gid}
        ELSE {m + i : i \in 0 .. (IF whole \/ left >= block THEN block ELSE left) - 1}

Submit ==
    /\ Launchable
    /\ launch' = [updates |-> [gid \in 0 .. Groups - 1 |-> Rows(gid)],
                  reads |-> Reads, asked |-> asked]
    /\ UNCHANGED <<runtime, recipe, local_size, active_kernel, args, range, asked, calls>>

Init ==
    /\ runtime \in Runtimes
    /\ recipe \in Recipes
    /\ local_size \in LocalSizes
    /\ active_kernel = "gemm"
    /\ args = [k \in Kernels |-> [i \in DOMAIN Signature(recipe) |-> Unset]]
    /\ range = Unset
    /\ asked = Unset
    /\ launch = Unset
    /\ calls = 0

Next ==
    \/ Refuse
    \/ \E q \in Requests : SetArgs(q)
    \/ \E q \in Requests : \E n \in DOMAIN Signature(recipe) : SetArgsFails(q, n)
    \/ Submit

Spec == Init /\ [][Next]_vars

-----------------------------------------------------------------------------
(* A request as its caller means it; what the recipe fixed is not looked   *)
(* for in it.                                                              *)
Fixed(static, v) == IF IsDynamic(static) THEN v ELSE static
Asks(r, q) ==
    LET As(x, ld) == [ptr |-> q[x],
                      shape |-> IF r.kind = "tall_and_skinny" THEN <<IF x = "B" THEN 1 ELSE Fixed(r.M, q.M), 1>>
                                ELSE <<1, 1, q.M>>,
                      stride |-> IF r.kind = "tall_and_skinny" THEN <<1, ld>> ELSE <<1, 1, 1>>]
    IN  [alpha |-> q.alpha, beta |-> q.beta,
         memrefs |-> [A |-> As("A", Fixed(r.ldA, q.ldA)), B |-> As("B", Fixed(r.ldB, q.ldB)),
                      C |-> As("C", Fixed(r.ldC, q.ldC))]]
RowsAsked(r, q) == 0 .. (IF r.kind = "tall_and_skinny" THEN Fixed(r.M, q.M) ELSE q.M) - 1

(* Whatever was requested before, and whatever of it failed, a launch      *)
(* after a call that succeeded reads what that call said, and its groups   *)
(* update every row of C once and nothing behind it (tall_and_skinny.cpp,  *)
(* small_gemm_batched.cpp, the three recipe_handler.cpp).                  *)
RunsTheRequest ==
    launch # Unset /\ launch.asked # Unset =>
        LET rows == RowsAsked(recipe, launch.asked)
            groups == DOMAIN launch.updates
        IN  /\ launch.reads = Asks(recipe, launch.asked)
            /\ \A row \in rows : Cardinality({g \in groups : row \in launch.updates[g]}) = 1
            /\ \A g \in groups : launch.updates[g] \subseteq rows
=============================================================================
