---------------------------- MODULE MCUploadPool ----------------------------
(* Instances of UploadPool for TLC. *)
EXTENDS UploadPool, TLC

CONSTANTS q1, q2, s1, s2, f1, n1, n2, x, y

\* One column upload on two states.
PairStmtOf == s1 :> q1 @@ s2 :> q1
StringsKind == q1 :> "strings"

\* Two statements, one state each.
TwoStmtOf == s1 :> q1 @@ s2 :> q2
BothStrings == q1 :> "strings" @@ q2 :> "strings"
StringsAndPlain == q1 :> "strings" @@ q2 :> "plain"

\* One text; two texts with one hash.
OneHash == x :> 0
SameHash == x :> 0 @@ y :> 0
=============================================================================
