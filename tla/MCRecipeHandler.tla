--------------------------- MODULE MCRecipeHandler ---------------------------
(* Recipes with all, some and none of their constants fixed, blocks that    *)
(* divide M and blocks that do not, and requests for both kernels.           *)
EXTENDS RecipeHandler

Tall(M, ldA, ldB, ldC, block) ==
    [kind |-> "tall_and_skinny", M |-> M, ldA |-> ldA, ldB |-> ldB, ldC |-> ldC,
     M_block_size |-> block]
MCRecipes ==
    {Tall(Dynamic, Dynamic, Dynamic, Dynamic, 2), Tall(Dynamic, 7, Dynamic, Dynamic, 1),
     Tall(4, Dynamic, 8, Dynamic, 2), Tall(5, 7, 8, 9, 2),
     [kind |-> "small_gemm_batched", M |-> Dynamic]}
Ask(M, alpha, beta, A, B, C, ld) ==
    [M |-> M, alpha |-> alpha, beta |-> beta, A |-> A, B |-> B, C |-> C,
     ldA |-> ld, ldB |-> ld + 1, ldC |-> ld + 2]
MCRequests ==
    {Ask(M, 3, 0, "a1", "b1", "c1", 10) : M \in {0, 4}}
        \cup {Ask(M, 2, 6, "a2", "b2", "c2", 20) : M \in {4, 5}}
MCLocalSizes == {[gemm |-> 1, gemm_beta0 |-> 1], [gemm |-> 3, gemm_beta0 |-> 2]}
=============================================================================
