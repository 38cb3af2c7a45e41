---------------------------- MODULE AddressService ----------------------------
(***************************************************************************)
(* What the bundle cache promises the handlers, without tiers, clocks or   *)
(* an event loop. A call is about one address id. Scans of the partner     *)
(* database are expensive: at most one per address runs at a time. A call  *)
(* is answered once, with the bundle of a scan of its own address, with    *)
(* the failure of one, or with the news that the id is unknown.            *)
(***************************************************************************)
CONSTANTS Calls, Ids, NoEntry

VARIABLES
  about,  \* the address id a call is about, NoEntry until it has run
  scan,   \* the scan a call began: "none", "running", "bundle" or "failed"
  reply   \* what a call was told, NoEntry until then

vars == <<about, scan, reply>>

Replies == [kind : {"bundle", "error"}, by : Calls] \cup [kind : {"unknown"}]

TypeOK ==
  /\ about \in [Calls -> Ids \cup {NoEntry}]
  /\ scan \in [Calls -> {"none", "running", "bundle", "failed"}]
  /\ reply \in [Calls -> Replies \cup {NoEntry}]

Init ==
  /\ about = [r \in Calls |-> NoEntry]
  /\ scan = [r \in Calls |-> "none"]
  /\ reply = [r \in Calls |-> NoEntry]

(* Call r turns out to be about id i; it was told nothing before. *)
Ask(r, i) ==
  /\ about[r] = NoEntry
  /\ about' = [about EXCEPT ![r] = i]

Scanned(i) == \E t \in Calls : about[t] = i /\ scan[t] = "running"

Begin(r, i) ==
  /\ Ask(r, i)
  /\ ~Scanned(i)
  /\ scan' = [scan EXCEPT ![r] = "running"]
  /\ UNCHANGED reply

(* A scan of the same address is under way, or its failure not yet told to *)
(* the call that began it: r waits for its outcome.                        *)
Join(r, i) ==
  /\ Ask(r, i)
  /\ Scanned(i)
  /\ UNCHANGED <<scan, reply>>

End(t, outcome) ==
  /\ scan[t] = "running"
  /\ scan' = [scan EXCEPT ![t] = outcome]
  /\ UNCHANGED <<about, reply>>

Tell(r, m) ==
  /\ reply[r] = NoEntry
  /\ reply' = [reply EXCEPT ![r] = m]
  /\ UNCHANGED scan

(* r waited for a scan of its address, and is told its outcome. *)
TellOutcome(r, t) ==
  /\ about[r] # NoEntry /\ about[r] = about[t]
  /\ \/ scan[t] = "bundle" /\ Tell(r, [kind |-> "bundle", by |-> t])
     \/ scan[t] = "failed" /\ Tell(r, [kind |-> "error", by |-> t])
  /\ UNCHANGED about

(* r asks and is told at once: any bundle of its address there is, a       *)
(* failure only until the call that began the failed scan was told of it,  *)
(* or that the id is unknown.                                              *)
AskTold(r, i) ==
  /\ Ask(r, i)
  /\ \/ \E t \in Calls :
          /\ about[t] = i
          /\ \/ /\ scan[t] = "bundle"
                /\ Tell(r, [kind |-> "bundle", by |-> t])
             \/ /\ scan[t] = "failed" /\ reply[t] = NoEntry
                /\ Tell(r, [kind |-> "error", by |-> t])
     \/ Tell(r, [kind |-> "unknown"])

Next ==
  \/ \E r \in Calls, i \in Ids : Begin(r, i) \/ Join(r, i) \/ AskTold(r, i)
  \/ \E t \in Calls, outcome \in {"bundle", "failed"} : End(t, outcome)
  \/ \E r, t \in Calls : TellOutcome(r, t)

Spec == Init /\ [][Next]_vars
==============================================================================
