---------------------------- MODULE MCWritePages ----------------------------
(* Two source files in two versions, a build artifact of two contracts and a *)
(* broken one, two wallet accounts, two users of the browser.                *)
EXTENDS WritePages, TLC

Contract(f, n) == [file |-> f, name |-> n]
MCArtifacts ==
  {[valid |-> TRUE, version |-> "0.8.2",
    contracts |-> <<Contract("A.sol", "A"), Contract("B.sol", "A")>>],
   [valid |-> FALSE, version |-> "", contracts |-> <<>>]}
MCCompilers == <<"0.8.20", "0.8.2">>
MCStartsWith == {<<"0.8.20", "0.8.2">>, <<"0.8.2", "0.8.2">>, <<"0.8.20", "0.8.20">>}
\* One file, or two of the same name with different contents, in either order.
One == {<<c>> : c \in Contents}
Two == {<<c, d>> : c \in Contents, d \in Contents} \ {<<c, c>> : c \in Contents}
MCSelections ==
  UNION {{[m \in FileNames |-> IF m = n THEN cs ELSE <<>>] : cs \in One \cup Two} : n \in FileNames}

\* The fields a multi-part request needs; the others keep their mount value.
MCEdited == {"compilerVersion", "mpMainFile", "mpContractName"}

\* Accounts and users are alike: which are the first ones does not matter.
MCInit == Init /\ selected = "acc1" /\ user = "u1"
MCSpec == MCInit /\ [][Next]_vars

Symmetry == Permutations(FileNames) \cup Permutations(Contents)
=============================================================================
