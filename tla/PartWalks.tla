------------------------------ MODULE PartWalks ------------------------------
(***************************************************************************)
(* Two programs on one disk: wee lists its partitions at boot              *)
(* (list_partitions), and an installer enumerates them under the operating *)
(* system (xd_enum).  Each keeps its own state; what a user carries from   *)
(* one to the other is the number of a partition.                          *)
(***************************************************************************)
EXTENDS XdEnum, WeeParts

walkvars == <<disk, evars, lvars>>

-----------------------------------------------------------------------------
WalksInit == disk \in Disks /\ EnumInit /\ ListInit

Boot == ListTurn /\ UNCHANGED evars

\* A chain that leads back to itself is walked forever, and no caller comes
\* back with it.
Install ==
    /\ lpc = "done"
    /\ \/ Enumerate /\ ~IsCyclic
       \/ Turn
    /\ UNCHANGED lvars

Jump == lpc = "done" /\ (\E n \in Targets : JumpTo(n)) /\ UNCHANGED lvars

WalksNext == Boot \/ Install \/ Jump

\* Each is one thread without a wait: it runs on.
WalksSpec == WalksInit /\ [][WalksNext]_walkvars /\ WF_walkvars(Boot \/ Install)

-----------------------------------------------------------------------------
(***************************************************************************)
(* Properties.                                                             *)
(***************************************************************************)

\* The partitions both programs see: xd_enum does not know every type of extended
\* partition that wee does, and misses the logical ones in one it does not know.
SeenByBoth == {k \in InList : IsForeign => list[k].lo < 4}

\* A partition that both programs see has the same number in wee's list and in the
\* enumeration, unless an empty first slot or an empty first table makes wee count
\* differently, or the partitions of the first table overlap and xd_enum refuses
\* them.
NumbersAgree ==
    /\ Enumerated /\ Found /\ IsOrderly /\ Sound(disk[0])
    /\ disk[0][0] # Free
    /\ Path # <<>> /\ Path[1] \in DOMAIN disk => 1 \in LogicalAt
    => {[num |-> list[k].lo, start |-> Where(list[k])] : k \in SeenByBoth} =
       {p \in found : \A k \in Slots :
            IsExt(disk[0][k]) => p # [num |-> k, start |-> disk[0][k].at]}

\* list_partitions ends on every disk, one whose chain leads back included, and
\* xd_enum comes to the end of every chain that has one.
WalksEnd == <>(lpc = "done") /\ <>(Enumerated \/ IsCyclic)
=============================================================================
