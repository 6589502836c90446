---------------------------- MODULE VersionHistory ----------------------------
(***************************************************************************)
(* What the versions of a process promise as long as none is deleted, with *)
(* every operation done in one step: each user has one history, which      *)
(* grows at its end and loses nothing; a version is shown only when the    *)
(* history is complete up to it, and is edited only once it was shown.     *)
(***************************************************************************)
EXTENDS Naturals

CONSTANTS Users, Contents, NoContent, MaxVersion

VARIABLES history, \* the content of each version of each user
          shown    \* the version each user sees, 0 for none

historyVars == <<history, shown>>

Versions == 1..MaxVersion

Exists(u, n) == history[u][n] # NoContent

\* The user has everything up to version n.
Full(u, n) == \A k \in Versions : k <= n => Exists(u, k)

\* Version n is the next one, or the user starts over and sees none yet.
Follows(u, n) == shown[u] \in {0, n - 1}

Write(u, n, c) ==
  /\ history' = [history EXCEPT ![u][n] = c]
  /\ UNCHANGED shown

Init ==
  /\ history = [u \in Users |-> [n \in Versions |-> NoContent]]
  /\ shown = [u \in Users |-> 0]

Add(u, n, c) ==
  /\ ~Exists(u, n)
  /\ Full(u, n - 1)
  /\ Follows(u, n)
  /\ Write(u, n, c)

Edit(u, n, c) ==
  /\ Exists(u, n)
  /\ shown[u] = 0 \/ n <= shown[u]
  /\ Write(u, n, c)

Show(u, n) ==
  /\ Full(u, n)
  /\ Follows(u, n)
  /\ shown' = [shown EXCEPT ![u] = n]
  /\ UNCHANGED history

\* A creation that fails takes the copy with it, and leaves its versions.
Hide(u) ==
  /\ shown' = [shown EXCEPT ![u] = 0]
  /\ UNCHANGED history

Next ==
  \E u \in Users :
    \/ Hide(u)
    \/ \E n \in Versions :
         \/ Show(u, n)
         \/ \E c \in Contents : Add(u, n, c) \/ Edit(u, n, c)

Spec == Init /\ [][Next]_historyVars
=============================================================================
