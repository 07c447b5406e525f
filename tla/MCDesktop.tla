----------------------------- MODULE MCDesktop -----------------------------
(***************************************************************************)
(* The desktop, with the account thread alone or with one more at the      *)
(* start, and two invites to a further one; and, beside it, the files of   *)
(* threads that it shows.  The two share no state: which one moves is      *)
(* chosen at the start and the other is parked in an initial state, the    *)
(* desktop in one with nothing to list.  In "files" no post and IGNORE of  *)
(* common files are handled at one time; in "meeting" they may be, of      *)
(* three posts and an IGNORE of the first, and nothing fails.              *)
(***************************************************************************)
EXTENDS Desktop, ThreadFiles

CONSTANTS i1, i2, t0, t1, account, f1, f2, f3, k1, k2, p1, p2, p3, g1, g2

Invited == [invite \in {i1, i2} |-> t1]

LoadedFirst == {<<account>>, <<account, t0>>}

\* two files encrypt the same content
Contents == [x \in {f1, f2, f3} |-> IF x = f3 THEN f1 ELSE x]

\* two targets with a file in common
InTargets == [k \in {k1, k2} |-> IF k = k1 THEN {f1, f2} ELSE {f2, f3}]

\* two posts of one target
OfPosts == [p \in {p1, p2, p3} |-> IF p = p2 THEN k2 ELSE k1]

OfIgnores == [g \in {g1, g2} |-> p1]

VARIABLE part

vars == <<part, desktopVars, filesVars>>

Init ==
  /\ part \in {"desktop", "files", "meeting"}
  /\ DesktopInit /\ FilesInit
  /\ part # "desktop" => loaded = <<account>>

Next ==
  /\ UNCHANGED part
  /\ \/ part = "desktop" /\ DesktopNext /\ UNCHANGED filesVars
     \/ part = "files" /\ FilesNext /\ met' = {} /\ UNCHANGED desktopVars
     \/ /\ part = "meeting" /\ FilesNext /\ UNCHANGED desktopVars
        /\ mishaps' = 0 /\ \A v \in Worker : block'[v] \in {NoBlock, p1, p2, p3, g1}

\* the fairness of DesktopSpec
Fairness == WF_vars(part = "desktop" /\ SystemStep /\ UNCHANGED <<part, filesVars>>)

Spec == Init /\ [][Next]_vars /\ Fairness
=============================================================================
