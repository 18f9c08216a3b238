-------------------------------- MODULE HLC --------------------------------
(***************************************************************************)
(* The hybrid logical clock of engine/internal/transactions.  Now and      *)
(* Update each run under the clock's mutex.  The wall clock they read may  *)
(* stand still or step back between calls.  Update is the entry point for  *)
(* timestamps of other nodes; Remote is empty where nothing calls it.      *)
(***************************************************************************)
EXTENDS Naturals

CONSTANTS
    Wall,         \* readings of the wall clock, in nanoseconds
    Remote,       \* timestamps that arrive from other nodes
    LogicalMod    \* logical is a uint32: 2^32 in the code

ASSUME HLCAssumption ==
    /\ Wall \subseteq Nat
    /\ LogicalMod \in Nat \ {0}
    /\ Remote \subseteq [wall : Nat, logical : 0..(LogicalMod - 1)]

VARIABLES
    lastWall,  \* HLC.lastWall
    logical,   \* HLC.logical
    call       \* the last call: its kind, the wall clock it read, what it was given

hlcVars == <<lastWall, logical, call>>

NoRemote == [wall |-> 0, logical |-> 0]

\* logical++ on a uint32.
Bump(n) == (n + 1) % LogicalMod

\* Timestamps are compared wall first.
Before(w1, l1, w2, l2) == w1 < w2 \/ (w1 = w2 /\ l1 < l2)

HLCInit ==
    /\ lastWall = 0
    /\ logical = 0
    /\ call = [op |-> "new", wall |-> 0, remote |-> NoRemote]

\* Variant: the reading is taken even when it did not advance.
NowTakesWall(w) ==
    /\ call' = [op |-> "now", wall |-> w, remote |-> NoRemote]
    /\ lastWall' = w
    /\ logical' = IF w > lastWall THEN 0 ELSE Bump(logical)

Now(w) ==
    /\ call' = [op |-> "now", wall |-> w, remote |-> NoRemote]
    /\ \/ w > lastWall /\ lastWall' = w /\ logical' = 0
       \/ w <= lastWall /\ logical' = Bump(logical) /\ UNCHANGED lastWall

MaxWall(w, remote) == IF remote.wall > w THEN remote.wall ELSE w

Update(w, remote) ==
    LET m == MaxWall(w, remote) IN
    /\ call' = [op |-> "update", wall |-> w, remote |-> remote]
    /\ lastWall' = m
    /\ \/ m = lastWall /\ logical' = Bump(logical)
       \/ /\ m # lastWall
          /\ m = remote.wall
          /\ logical' = IF remote.logical >= logical THEN Bump(remote.logical) ELSE Bump(logical)
       \/ m # lastWall /\ m # remote.wall /\ logical' = 0

HLCNext ==
    \/ \E w \in Wall : Now(w)
    \/ \E w \in Wall, remote \in Remote : Update(w, remote)

HLCSpec == HLCInit /\ [][HLCNext]_hlcVars

-----------------------------------------------------------------------------
(* Properties.                                                             *)

\* The shape of the clock: the counter stays within its width.
HLCTypeOK ==
    /\ lastWall \in Nat
    /\ logical \in 0..(LogicalMod - 1)
    /\ call \in [op : {"new", "now", "update"}, wall : Nat,
                 remote : [wall : Nat, logical : 0..(LogicalMod - 1)]]

Advances == Before(lastWall, logical, lastWall', logical')

\* Update past the remote timestamp it was given.
PassesRemote == Before(call'.remote.wall, call'.remote.logical, lastWall', logical')

\* An Update whose wall reading and remote timestamp are both behind the clock: its
\* default case takes the later of the two all the same.
SetsBack == call'.op = "update" /\ MaxWall(call'.wall, call'.remote) < lastWall

\* An Update on the clock's own nanosecond with a larger remote counter: the first
\* case only increments.
Ties ==
    /\ call'.op = "update"
    /\ lastWall = MaxWall(call'.wall, call'.remote) /\ lastWall = call'.remote.wall
    /\ call'.remote.logical > logical

\* The counter wraps: 2^32 calls on one nanosecond reading.
Wraps(w) == logical' = 0 /\ lastWall' = w

\* Every call moves the clock forward whatever the wall clock does, and Update moves
\* it past the remote timestamp, until the counter wraps, except for the two kinds
\* of Update named above, where the code does less than its comments say: "strictly
\* monotonic timestamps" (hlc.go Now), "advances the clock past a timestamp observed
\* from another node" (hlc.go Update).
ClockAdvances ==
    [][/\ SetsBack \/ Advances \/ Wraps(lastWall)
       /\ call'.op = "update" => Ties \/ PassesRemote \/ Wraps(call'.remote.wall)]_hlcVars
=============================================================================
