--------------------------- MODULE WorkGroupSize ---------------------------
(***************************************************************************)
(* work_group_size_pass (src/src/pass/work_group_size.cpp): the subgroup   *)
(* size and work-group size of a function, as it states them or as         *)
(* src/src/tiling.cpp suggests them for a device.                          *)
(*                                                                         *)
(* A device is a record: sizes (of subgroups, ascending), required (of its *)
(* matrix extension), and either generic with limit and registers, or with *)
(* eus execution units of threads each with as many bytes of registers,    *)
(* where large is the flag for twice the registers per thread.             *)
(* A function is a record: sgs and wgs, zero and empty if not stated, and  *)
(* shapes, what get_shapes collects: the sizes of the types of the         *)
(* operands (ops), the result (dst) and the accumulator (acc), the first   *)
(* two modes of the result, and whether it is a gemm the device has an     *)
(* extension for (ext).                                                    *)
(***************************************************************************)
EXTENDS Tiling, SequencesExt

(* A mode whose extent is only known at run time, less than any size.      *)
Dynamic == -1

RegisterSpace(d) == IF ~d.generic /\ d.large THEN 2 * d.registers ELSE d.registers

(* core_info_intel::max_work_group_size: a thread with twice the registers *)
(* or a wider subgroup leaves room for fewer.                              *)
MaxWorkGroupSize(d, sgs) ==
    IF d.generic THEN d.limit
    ELSE Min({IF d.large THEN d.threads \div 2 ELSE d.threads,
              (d.threads * d.sizes[1]) \div sgs}) * d.eus * sgs

(* max_element over a hash set: any of those with the greatest key.        *)
Greatest(shapes, key(_)) == {s \in shapes : \A t \in shapes : key(t) <= key(s)}

Extent(s, i) == IF s.shape[i] = Dynamic THEN 0 ELSE s.shape[i]

(* The subgroup sizes for which a square block of the widest type fits     *)
(* into half of the registers; the smallest is always sensible.            *)
SensibleSizes(shapes, d) ==
    LET widest == Max({1} \cup {s.dst : s \in shapes})
        reals == (RegisterSpace(d) \div 2) \div widest
    IN  SelectSeq(d.sizes, LAMBDA x : x = d.sizes[1] \/ (widest < 8 /\ x * x <= reals))

(* suggest_subgroup_size, all outcomes: the first that covers the rows of  *)
(* the largest result.                                                     *)
SuggestSubgroupSize(shapes, d) ==
    LET sizes == SensibleSizes(shapes, d)
        covering(m) == SelectSeq(sizes, LAMBDA x : m <= x)
    IN  IF \E s \in shapes : s.ext THEN {d.required}
        ELSE IF Len(sizes) = 1 \/ shapes = {} THEN {Last(sizes)}
        ELSE {Head(covering(s.shape[1]) \o <<Last(sizes)>>) :
                 s \in Greatest(shapes, LAMBDA s : Extent(s, 1))}

(* The powers of two up to a limit, one if that is smaller. *)
Powers(limit) == {x \in {2 ^ e : e \in 0 .. limit} : x = 1 \/ x <= limit}

(* suggest_local_tiling for one type and shape: the number of subgroups    *)
(* in either mode with the best ratio of products to loads, not more than  *)
(* there are blocks nor than there are threads.                            *)
LocalTiling(bytes, m, n, sgs, d) ==
    LET block == MaxRegisterBlock(bytes, sgs, RegisterSpace(d))
        threads == MaxWorkGroupSize(d, sgs) \div sgs
        limit(extent, i, most) ==
            IF extent = Dynamic THEN most ELSE Min({most, 1 + CDiv(extent - 1, block[i])})
        tiling(x) == <<x, Max(Powers(limit(n, 2, threads \div x)))>>
        rows(x) == x * block[1]
        cols(x) == tiling(x)[2] * block[2]
        better(x, y) == rows(x) * cols(x) * (rows(y) + cols(y))
                            > rows(y) * cols(y) * (rows(x) + cols(x))
        all == {x \in Powers(limit(m, 1, threads)) : x <= limit(m, 1, threads)}
    IN  IF all = {} THEN <<1, 1>>
        ELSE tiling(CHOOSE x \in all : \A y \in all \ {x} :
                        better(x, y) \/ (~better(y, x) /\ x < y))

(* suggest_local_tiling, all outcomes. *)
SuggestLocalTiling(shapes, sgs, d) ==
    LET widest == Greatest(shapes, LAMBDA s : s.acc)
        extents(i) == {s.shape[i] : s \in Greatest(shapes, LAMBDA s : Extent(s, i))}
    IN  IF shapes = {} THEN {<<1, 1>>}
        ELSE {LocalTiling(s.ops \o <<s.acc>>, m, n, sgs, d) :
                 s \in widest, m \in extents(1), n \in extents(2)}

(* run_on_function, all outcomes that are not an error.  A function with   *)
(* both attributes is not looked at.                                       *)
Sizes(f, d) ==
    LET sgss == IF f.sgs = 0 THEN SuggestSubgroupSize(f.shapes, d) ELSE {f.sgs}
        wgss(sgs) ==
            IF f.wgs = <<>>
            THEN {<<t[1] * sgs, t[2]>> : t \in SuggestLocalTiling(f.shapes, sgs, d)}
            ELSE {f.wgs}
        chosen == UNION {{[sgs |-> sgs, wgs |-> wgs] : wgs \in wgss(sgs)} :
                            sgs \in sgss \cap ToSet(d.sizes)}
    IN  IF f.sgs # 0 /\ f.wgs # <<>> THEN {[sgs |-> f.sgs, wgs |-> f.wgs]}
        ELSE {c \in chosen : /\ CRem(c.wgs[1], c.sgs) = 0
                             /\ c.wgs[1] * c.wgs[2] <= MaxWorkGroupSize(d, c.sgs)}

(* get_core_config_and_tiling (src/src/codegen_tools.cpp): what lower-     *)
(* linalg lowers the function for, if the device has the subgroup size.    *)
CoreConfigAndTiling(f, d) ==
    {[sgs |-> c.sgs, tiles |-> <<c.wgs[1] \div c.sgs, c.wgs[2]>>] :
        c \in {x \in Sizes(f, d) : x.sgs \in ToSet(d.sizes)}}
=============================================================================
