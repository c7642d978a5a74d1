------------------------------- MODULE MCVFS -------------------------------
(***************************************************************************)
(* Instances of VFS for TLC.                                               *)
(***************************************************************************)
EXTENDS VFS

(* "ab" begins with "a". *)
Prefixed == {<<"a", "ab">>}
NoPrefix == {}

(* No action looks at ret, and a count of 0 is as good as none: states that *)
(* differ in nothing else are the same.                                    *)
View == <<node, used, path_cache, fd_manager, [i \in Targets |-> Count(i)], fd_counter>>

=============================================================================
