------------------------------ MODULE Heartbeat ------------------------------
(***************************************************************************)
(* When the tracker takes a peer for dead: heartbeat_thread and            *)
(* read_monitor_thread of src/peer/peer.c against handshake_thread and     *)
(* monitor_thread of src/tracker/tracker.c.                                *)
(*                                                                         *)
(* Time passes in ticks, Second of them in a second; what time() returns   *)
(* counts whole seconds.  A message is read up to MaxDelay ticks after the *)
(* sleep before it was over: it travels, and its reader may have to wait   *)
(* for file_table->lock and for a broadcast.                               *)
(***************************************************************************)
EXTENDS Integers, Sequences

CONSTANTS INTERVAL,   \* seconds; the heartbeat sleeps for it, the monitor for 5 more
          Second,     \* ticks in a second
          MaxDelay,   \* bound: ticks from a message's sending to its handling
          MaxLag,     \* bound: ticks from the monitor's time() to its verdict on the peer
          MaxWire     \* bound: FILE_UPDATEs and heartbeats under way at once

ASSUME HeartbeatAssumption ==
  /\ INTERVAL \in Nat \ {0} /\ Second \in Nat \ {0}
  /\ MaxDelay \in Nat /\ MaxDelay < INTERVAL * Second
  /\ MaxLag \in Nat /\ MaxWire \in Nat \ {0}

VARIABLES
  phase,   \* the ticks of the current second
  pc,      \* the peer: "gone", "accepted", "registered" (the answer is on its way),
           \* "beating", "dead"
  beat,    \* ticks until its heartbeat_thread wakes up
  wire,    \* how long ago each message on its way was sent
  age,     \* time(NULL) - last_timestamp, or Ever when nothing has been heard
  waited,  \* ticks since last_timestamp was set, or the connection accepted
  nap,     \* ticks until monitor_thread wakes up
  lag,     \* ticks since it has read time_now, or Asleep
  judged   \* time_now - last_timestamp, 0 when that is negative

peer == <<pc, beat, wire>>
clock == <<age, waited>>
monitor == <<nap, lag, judged>>
heartbeatVars == <<phase, peer, clock, monitor>>

Asleep == -1
Ever == 10 * INTERVAL + 10     \* last_timestamp is 0: 1970

Interval == INTERVAL * Second
Sleep == (INTERVAL + 5) * Second

\* The longest that a peer can stay on the list unheard: just heard of at one visit,
\* not yet older than INTERVAL seconds at the next, it has to wait for the one after.
Longest == Interval + Second - 1 + Sleep + 2 * MaxLag

HeartbeatTypeOK ==
  /\ phase \in 0..(Second - 1)
  /\ pc \in {"gone", "accepted", "registered", "beating", "dead"}
  /\ beat \in 0..Interval
  /\ wire \in Seq(0..MaxDelay)
  /\ age \in 0..Ever /\ (pc = "accepted" => age = Ever)
  /\ waited \in Nat
  /\ nap \in 0..Sleep
  /\ lag \in Asleep..MaxLag
  /\ judged \in 0..Ever

HeartbeatInit ==
  /\ phase = 0
  /\ pc = "gone" /\ beat = 0 /\ wire = <<>>
  /\ age = Ever /\ waited = 0
  /\ nap = Sleep /\ lag = Asleep /\ judged = 0
-----------------------------------------------------------------------------
(***************************************************************************)
(* A tick.  Nobody oversleeps, no message is overdue.                      *)
(***************************************************************************)
InTime ==
  /\ pc = "beating" => beat > 0
  /\ pc = "registered" => waited < MaxDelay
  /\ \A i \in DOMAIN wire : wire[i] < MaxDelay
  /\ IF lag = Asleep THEN nap > 0 ELSE lag < MaxLag

Tick ==
  /\ InTime
  /\ phase' = (phase + 1) % Second
  /\ beat' = IF pc = "beating" THEN beat - 1 ELSE beat
  /\ wire' = [i \in DOMAIN wire |-> wire[i] + 1]
  /\ age' = IF age # Ever /\ phase' = 0 THEN age + 1 ELSE age
  /\ waited' = IF pc = "gone" THEN 0 ELSE waited + 1
  /\ nap' = IF lag = Asleep THEN nap - 1 ELSE nap
  /\ lag' = IF lag = Asleep THEN lag ELSE lag + 1
  /\ UNCHANGED <<pc, judged>>
-----------------------------------------------------------------------------
(***************************************************************************)
(* The peer.                                                               *)
(***************************************************************************)
\* accept and start_peer: last_timestamp is 0.
Connect ==
  /\ pc = "gone"
  /\ pc' = "accepted"
  /\ age' = Ever /\ waited' = 0
  /\ judged' = Ever
  /\ UNCHANGED <<phase, beat, wire, nap, lag>>

\* last_timestamp = time(NULL).  A time_now that was read before is no later.
Heard ==
  /\ age' = 0 /\ waited' = 0
  /\ judged' = 0

\* REGISTER is handled; it comes when it comes.
Register ==
  /\ pc = "accepted"
  /\ pc' = "registered"
  /\ Heard
  /\ UNCHANGED <<phase, beat, wire, nap, lag>>

\* REGISTER_ACK has come and heartbeat_thread begins with its sleep.
StartHeartbeat ==
  /\ pc = "registered"
  /\ pc' = "beating" /\ beat' = Interval
  /\ UNCHANGED <<phase, wire, clock, monitor>>

SendKeepAlive ==
  /\ pc = "beating" /\ beat = 0
  /\ beat' = Interval
  /\ wire' = Append(wire, 0)
  /\ UNCHANGED <<phase, pc, clock, monitor>>

SendFileUpdate ==
  /\ pc = "beating" /\ Len(wire) < MaxWire
  /\ wire' = Append(wire, 0)
  /\ UNCHANGED <<phase, pc, beat, clock, monitor>>

\* The machine is lost without closing its connection.
Die ==
  /\ pc \in {"registered", "beating"}
  /\ pc' = "dead"
  /\ UNCHANGED <<phase, beat, wire, clock, monitor>>
-----------------------------------------------------------------------------
(***************************************************************************)
(* The tracker.                                                            *)
(***************************************************************************)
\* handshake_thread: KEEP_ALIVE and FILE_UPDATE alike.
ReceiveMessage ==
  /\ wire # <<>>
  /\ wire' = Tail(wire)
  /\ Heard
  /\ UNCHANGED <<phase, pc, beat, nap, lag>>

\* monitor_thread wakes up and reads the time.
Wake ==
  /\ lag = Asleep /\ nap = 0
  /\ lag' = 0
  /\ judged' = age
  /\ UNCHANGED <<phase, peer, clock, nap>>

\* Mutant of Judge: the comparison lets INTERVAL seconds pass for late.
JudgeEarly ==
  /\ lag # Asleep
  /\ lag' = Asleep /\ nap' = Sleep
  /\ judged' = 0
  /\ IF pc # "gone" /\ judged >= INTERVAL
     THEN pc' = "gone" /\ beat' = 0 /\ wire' = <<>> /\ age' = Ever /\ waited' = 0
     ELSE UNCHANGED <<pc, beat, wire, clock>>
  /\ UNCHANGED phase

\* Mutant of Judge: the buffer is in the comparison, too.
JudgeLate ==
  /\ lag # Asleep
  /\ lag' = Asleep /\ nap' = Sleep
  /\ judged' = 0
  /\ IF pc # "gone" /\ judged > INTERVAL + 5
     THEN pc' = "gone" /\ beat' = 0 /\ wire' = <<>> /\ age' = Ever /\ waited' = 0
     ELSE UNCHANGED <<pc, beat, wire, clock>>
  /\ UNCHANGED phase

\* It comes to the peer: it evicts it (peertable_remove, peer_destroy) or lets it be,
\* and sleeps again.
Judge ==
  /\ lag # Asleep
  /\ lag' = Asleep /\ nap' = Sleep
  /\ judged' = 0
  /\ IF pc # "gone" /\ judged > INTERVAL
     THEN pc' = "gone" /\ beat' = 0 /\ wire' = <<>> /\ age' = Ever /\ waited' = 0
     ELSE UNCHANGED <<pc, beat, wire, clock>>
  /\ UNCHANGED phase

HeartbeatNext ==
  \/ Tick
  \/ Connect \/ Register \/ StartHeartbeat \/ SendKeepAlive \/ SendFileUpdate \/ Die
  \/ ReceiveMessage \/ Wake \/ Judge

HeartbeatSpec == HeartbeatInit /\ [][HeartbeatNext]_heartbeatVars
-----------------------------------------------------------------------------
(***************************************************************************)
(* A registered peer is evicted only when for more than INTERVAL seconds   *)
(* nothing was heard of it, although the tracker compares whole seconds    *)
(* and an old time_now (tracker.c:294).  If it lives, a heartbeat was late *)
(* then.  One tick late is enough: the 5 seconds of tracker.c:283 are      *)
(* between two visits and not in the comparison.                           *)
(***************************************************************************)
Evicted == pc \in {"registered", "beating", "dead"} /\ pc' = "gone"

EvictedForCause ==
  [][Evicted => waited > Interval]_heartbeatVars

(***************************************************************************)
(* The tracker hears of a peer that lives once in INTERVAL seconds, give   *)
(* or take the delays, and of a prompt one often enough never to evict it; *)
(* one of which nothing is heard any more, or never was, goes within       *)
(* Longest.                                                                *)
(***************************************************************************)
HeardOrEvicted ==
  waited <= IF pc = "beating" THEN Interval + 2 * MaxDelay ELSE Longest
==============================================================================
