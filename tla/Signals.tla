-------------------------------- MODULE Signals --------------------------------
(***************************************************************************)
(* utils::signal::signal: slots that are connected, disconnected, blocked  *)
(* and called by several threads.  The capture and audio threads of webrtc *)
(* emit while the main thread connects and disconnects.                    *)
(*                                                                         *)
(* A mutex guards the list of slots; an emission takes a reference to the  *)
(* list (copy_on_write keeps it as it was) and calls the slots without the *)
(* mutex.  Positions count from 1, the code's from 0.                      *)
(***************************************************************************)
EXTENDS Naturals, Sequences, FiniteSets, SequencesExt, TLC

CONSTANTS
    Slots,      \* slots, each is connected once
    Tracked,    \* those that track an object (slot_tracked, slot_pmf_tracked)
    Blockable,  \* bound: those that are blocked at times
    Gids,       \* group ids
    Threads     \* emissions under way at once

ASSUME SignalsAssumption ==
    /\ Tracked \subseteq Slots /\ Blockable \subseteq Slots
    /\ Gids \subseteq Nat /\ IsFiniteSet(Slots)

VARIABLES
    groups,     \* m_slots
    made,       \* slots that exist
    gid,        \* m_group
    index,      \* m_index
    connected,  \* m_connected
    blocked,    \* m_blocked
    expired,    \* tracked objects that are gone
    cleaning,   \* slots whose disconnect waits for the mutex
    emission,   \* what each thread emits
    bulk        \* history: connected slots that disconnect_if, a group or clear removed

slotVars == <<made, gid, index, connected, blocked, expired>>
signalsVars == <<groups, slotVars, cleaning, emission, bulk>>

-----------------------------------------------------------------------------
(* The list                                                                *)

Flat == FlattenSeq([i \in DOMAIN groups |-> groups[i].slts])
Listed(s) == \E i \in DOMAIN groups : s \in {groups[i].slts[j] : j \in DOMAIN groups[i].slts}
Positions(g) == {i \in DOMAIN groups : groups[i].gid = g}

\* The slots and indices of a group once the last slot has taken place i.
SwapPop(r, i) ==
    LET n == Len(r.slts)
    IN  [slts |-> SubSeq([r.slts EXCEPT ![i] = r.slts[n]], 1, n - 1),
         index |-> [r.index EXCEPT ![r.slts[n]] = i]]

\* A turn of the loop of disconnect_if: the slot at i is kept or dropped.
SweepTurn(r, M) ==
    IF r.list.slts[r.i] \in M THEN [i |-> r.i, list |-> SwapPop(r.list, r.i)]
    ELSE [r EXCEPT !.i = @ + 1]

\* The loop over one group: each turn has one slot less before it.
Sweep(slts, index0, M) ==
    LET after[k \in 0..Len(slts)] ==
            IF k = 0 THEN [i |-> 1, list |-> [slts |-> slts, index |-> index0]]
            ELSE SweepTurn(after[k - 1], M)
    IN  after[Len(slts)].list

-----------------------------------------------------------------------------
(* signal_base                                                             *)

\* The groups ascend; a slot comes last in its group, which may be new.
AddSlot(s, g) ==
    LET later == {i \in DOMAIN groups : groups[i].gid >= g}
        at == IF later = {} THEN Len(groups) + 1
              ELSE CHOOSE i \in later : \A j \in later : i <= j
        there == at <= Len(groups) /\ groups[at].gid = g
    IN  /\ groups' = IF there THEN [groups EXCEPT ![at].slts = Append(@, s)]
                     ELSE InsertAt(groups, at, [gid |-> g, slts |-> <<s>>])
        /\ index' = [index EXCEPT ![s] = IF there THEN Len(groups[at].slts) + 1 ELSE 1]
        /\ gid' = [gid EXCEPT ![s] = g]
        /\ made' = made \cup {s}
        /\ connected' = connected \cup {s}
        /\ UNCHANGED <<blocked, expired, cleaning, emission, bulk>>

\* connect and connect_extended with a callable, or a member of an object.
Connect(s) == s \notin made \cup Tracked /\ \E g \in Gids : AddSlot(s, g)

\* connect with an object to track, which may be gone already.
ConnectTracked(s) == s \in Tracked \ made /\ \E g \in Gids : AddSlot(s, g)

\* A connection refers to its slot weakly: the list, an emission that holds the
\* list as it was, or a disconnect under way keeps it.
Valid(s) ==
    \/ Listed(s) \/ s \in cleaning
    \/ \E t \in Threads : s \in ToSet(emission[t].all)

\* What the history of an emission loses when a slot is blocked or goes.
Unsteady(s) ==
    [t \in Threads |-> [emission[t] EXCEPT !.steady = @ \ {s}]]

\* slot_state::disconnect, by a connection, a scoped_connection or an observer:
\* the flag goes first, whoever flips it cleans.
Disconnect(s) ==
    /\ Valid(s) /\ s \in connected
    /\ connected' = connected \ {s}
    /\ cleaning' = cleaning \cup {s}
    /\ emission' = Unsteady(s)
    /\ bulk' = bulk \ {s}
    /\ UNCHANGED <<groups, made, gid, index, blocked, expired>>

\* Mutant: any slot at that index is removed.
CleanUnguarded(s) ==
    /\ s \in cleaning
    /\ cleaning' = cleaning \ {s}
    /\ LET at == {i \in Positions(gid[s]) : index[s] <= Len(groups[i].slts)} IN
       IF at = {} THEN UNCHANGED <<groups, index>>
       ELSE LET i == CHOOSE i \in at : TRUE
                r == SwapPop([slts |-> groups[i].slts, index |-> index], index[s])
            IN  groups' = [groups EXCEPT ![i].slts = r.slts] /\ index' = r.index
    /\ UNCHANGED <<made, gid, connected, blocked, expired, emission, bulk>>

Clean(s) ==
    /\ s \in cleaning
    /\ cleaning' = cleaning \ {s}
    /\ LET at == {i \in Positions(gid[s]) :
                    index[s] <= Len(groups[i].slts) /\ groups[i].slts[index[s]] = s}
       IN
       IF at = {} THEN UNCHANGED <<groups, index>>
       ELSE LET i == CHOOSE i \in at : TRUE
                r == SwapPop([slts |-> groups[i].slts, index |-> index], index[s])
            IN  groups' = [groups EXCEPT ![i].slts = r.slts] /\ index' = r.index
    /\ UNCHANGED <<made, gid, connected, blocked, expired, emission, bulk>>

\* What has_callable and has_object select: slots share callables and objects
\* in every way.
Matching == SUBSET {s \in Slots : Listed(s)} \ {{}}

\* disconnect_if: the slots bound to a callable, an object, or both.
DisconnectIf ==
    \E M \in Matching :
        LET swept(i) == Sweep(groups[i].slts, index, M)
        IN  /\ groups' = [i \in DOMAIN groups |->
                            [groups[i] EXCEPT !.slts = swept(i).slts]]
            /\ index' = [s \in Slots |->
                            LET at == Positions(gid[s])
                            IN  IF at = {} THEN index[s]
                                ELSE swept(CHOOSE i \in at : TRUE).index[s]]
            /\ bulk' = bulk \cup (M \cap connected)
            /\ UNCHANGED <<made, gid, connected, blocked, expired,
                           cleaning, emission>>

DisconnectGroup ==
    \E i \in DOMAIN groups :
        /\ groups' = [groups EXCEPT ![i].slts = <<>>]
        /\ bulk' = bulk \cup (ToSet(groups[i].slts) \cap connected)
        /\ UNCHANGED <<slotVars, cleaning, emission>>

DisconnectAll ==
    /\ groups # <<>>
    /\ groups' = <<>>
    /\ bulk' = bulk \cup (ToSet(Flat) \cap connected)
    /\ UNCHANGED <<slotVars, cleaning, emission>>

\* connection::block, connection_blocker
BlockSlot(s) ==
    /\ Valid(s) /\ s \in Blockable
    /\ blocked' = IF s \in blocked THEN blocked \ {s} ELSE blocked \cup {s}
    /\ emission' = Unsteady(s)
    /\ UNCHANGED <<groups, made, gid, index, connected, expired,
                   cleaning, bulk>>

\* A tracked object goes; a slot that runs holds it.
Expire(s) ==
    /\ s \in Tracked \ expired
    /\ s \notin {emission[t].all[emission[t].next] :
                    t \in {x \in Threads : emission[x].stage = "run"}}
    /\ expired' = expired \cup {s}
    /\ emission' = Unsteady(s)
    /\ UNCHANGED <<groups, made, gid, index, connected, blocked,
                   cleaning, bulk>>

-----------------------------------------------------------------------------
(* operator(): the emission of thread t                                    *)

Quiet == [stage |-> "none", all |-> <<>>, next |-> 1, called |-> <<>>, steady |-> {}]

Fit(s) == s \in connected \ (blocked \cup expired)

\* A signal that is blocked as a whole is not emitted: no step.
Emit(t) ==
    /\ emission[t].stage = "none"
    /\ emission' = [emission EXCEPT
            ![t] = [Quiet EXCEPT !.stage = "check", !.all = Flat,
                                 !.steady = {s \in Slots : Listed(s) /\ Fit(s)}]]
    /\ UNCHANGED <<groups, slotVars, cleaning, bulk>>

\* Mutant: the emission goes through the list others change.
LiveSlots(t) == Flat

SlotsOf(t) == emission[t].all

Skip(t) == [emission EXCEPT ![t].stage = "check", ![t].next = @ + 1]

\* slot_base::operator()
Check(t) ==
    /\ emission[t].stage = "check" /\ emission[t].next <= Len(SlotsOf(t))
    /\ emission' = IF Fit(SlotsOf(t)[emission[t].next])
                   THEN [emission EXCEPT ![t].stage = "call"] ELSE Skip(t)
    /\ UNCHANGED <<groups, slotVars, cleaning, bulk>>

\* call_slot.  A tracked slot looks at its object again and disconnects itself
\* when it is gone.
Call(t) ==
    /\ emission[t].stage = "call"
    /\ LET s == SlotsOf(t)[emission[t].next] IN
       IF s \in Tracked /\ s \in expired
       THEN /\ connected' = connected \ {s}
            /\ cleaning' = IF s \in connected THEN cleaning \cup {s} ELSE cleaning
            /\ bulk' = bulk \ {s}
            /\ emission' = Skip(t)
       ELSE /\ emission' = IF s \in Tracked /\ s \notin connected THEN Skip(t)
                           ELSE [emission EXCEPT ![t].stage = "run",
                                                 ![t].called = Append(@, s)]
            /\ UNCHANGED <<connected, cleaning, bulk>>
    /\ UNCHANGED <<groups, made, gid, index, blocked, expired>>

Return(t) ==
    /\ emission[t].stage = "run"
    /\ emission' = Skip(t)
    /\ UNCHANGED <<groups, slotVars, cleaning, bulk>>

Finish(t) ==
    /\ emission[t].stage = "check" /\ emission[t].next > Len(SlotsOf(t))
    /\ emission' = [emission EXCEPT ![t] = Quiet]
    /\ UNCHANGED <<groups, slotVars, cleaning, bulk>>

-----------------------------------------------------------------------------
SignalsInit ==
    /\ groups = <<>>
    /\ made = {} /\ connected = {} /\ blocked = {} /\ expired = {}
    /\ gid = [s \in Slots |-> 0] /\ index = [s \in Slots |-> 1]
    /\ cleaning = {} /\ bulk = {}
    /\ emission = [t \in Threads |-> Quiet]

SignalsNext ==
    \/ DisconnectIf \/ DisconnectGroup \/ DisconnectAll
    \/ \E s \in Slots :
        \/ Connect(s) \/ ConnectTracked(s) \/ Disconnect(s) \/ Clean(s)
        \/ BlockSlot(s) \/ Expire(s)
    \/ \E t \in Threads : Emit(t) \/ Check(t) \/ Call(t) \/ Return(t) \/ Finish(t)

SignalsSpec == SignalsInit /\ [][SignalsNext]_signalsVars

-----------------------------------------------------------------------------
(* Every variable has its type.                                            *)
SignalsTypeOK ==
    /\ groups \in Seq([gid : Gids, slts : Seq(Slots)])
    /\ \A ss \in {connected, cleaning} : ss \subseteq made
    /\ bulk \subseteq connected
    /\ blocked \subseteq made /\ made \subseteq Slots /\ expired \subseteq Tracked
    /\ index \in [Slots -> 1..Cardinality(Slots)]
    /\ \A t \in Threads : emission[t].stage \in {"none", "check", "call", "run"}

(* The groups ascend, and every slot of the list is in its group, at its   *)
(* index and nowhere else, whatever threads connect and disconnect         *)
(* (utils/signal.hpp:1412, :1453, :1469).                                  *)
ListIsConsistent ==
    /\ \A i, j \in DOMAIN groups : i < j => groups[i].gid < groups[j].gid
    /\ \A i \in DOMAIN groups : \A j \in DOMAIN groups[i].slts :
        LET s == groups[i].slts[j] IN gid[s] = groups[i].gid /\ index[s] = j

(* A slot stays in the list until somebody disconnects it: cleaning one    *)
(* never removes another, also when both clean at once or the list was     *)
(* swept in between.  A slot whose disconnect is done is gone              *)
(* (utils/signal.hpp:1410).                                                *)
OnlyTheDisconnectedGo ==
    \A s \in made :
        /\ s \in connected \ bulk => Listed(s)
        /\ s \notin connected \cup cleaning => ~Listed(s)

(* "All non blocked and connected slot functions will be called"           *)
(* (utils/signal.hpp:1061): a slot that was fit all through an emission is *)
(* called in it, no slot is called twice, and groups are called in         *)
(* ascending order, although the list changes meanwhile.                   *)
EffectHolds ==
    \A t \in Threads : LET e == emission[t] IN
        /\ e.stage = "check" /\ e.next > Len(SlotsOf(t)) => e.steady \subseteq ToSet(e.called)
        /\ \A i, j \in DOMAIN e.called : i < j =>
            e.called[i] # e.called[j] /\ gid[e.called[i]] <= gid[e.called[j]]

(* A list of slots that threads share is sound, and nobody's slot is lost. *)
SlotsAreSound == SignalsTypeOK /\ ListIsConsistent /\ OnlyTheDisconnectedGo

=============================================================================
