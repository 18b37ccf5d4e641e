-------------------------- MODULE MCVerification --------------------------
(* TLC instances of Verification. *)
EXTENDS Verification, TLC

CONSTANTS v1, v19, contract, interface, body, other, metadata1, metadata2

\* The text of v1 starts that of v19, as "0.8.1" starts "0.8.19".
MCLonger == (v1 :> {v19}) @@ (v19 :> {})

\* The contract was deployed by v1; compiled again it differs in its metadata. The
\* interface compiles to nothing.
MCOnChain == <<body, metadata1>>
MCGives == (contract :> ((v1 :> <<body, metadata2>>) @@ (v19 :> <<other, metadata2>>)))
           @@ (interface :> ((v1 :> << >>) @@ (v19 :> << >>)))
MCArgs == {<< >>, MCOnChain}

RequestSymmetry == Permutations(Requests)
===========================================================================
