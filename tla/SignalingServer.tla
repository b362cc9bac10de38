-------------------------- MODULE SignalingServer --------------------------
(***************************************************************************)
(* The signaling server: registration_handler pairs the two devices that   *)
(* register under one key, device relays session descriptions between the  *)
(* two and arbitrates which of them may create an offer.                   *)
(*                                                                         *)
(* The server runs on one asio thread, so one call of a handler is one     *)
(* step.  A handler calls through the pair (set_partner sends the cache,   *)
(* send_answer renegotiates, ...), so every device method is an operator   *)
(* from the state of the devices to the state after the call, and a        *)
(* handler composes them in the order of the calls.                        *)
(*                                                                         *)
(* A device is created for exactly one connection and lives no longer, so  *)
(* both go by one name, a member of Conns.                                 *)
(***************************************************************************)
EXTENDS Naturals, Sequences

CONSTANTS
    Keys,           \* registration keys (one per pair of users)
    Tokens,         \* reconnect tokens (a user registers with its own id)
    Conns,          \* websocket connections the server may ever accept
    None,           \* the null pointer
    MaxCandidates,  \* bound: ice candidates one device caches
    Asserts         \* BOOST_ASSERT compiled in (Debug) or not (Release)

ASSUME NoneAssumption == None \notin Conns
ASSUME BoundAssumption == MaxCandidates \in Nat
ASSUME AssertsAssumption == Asserts \in BOOLEAN

VARIABLES
    conn,     \* "idle" (not accepted yet), "open" or "closed", per connection
    slot,     \* registered_connection::devices of every key
    regKey,   \* the key a connection registered with
    regToken, \* the token a connection registered with
    live,     \* devices that exist
    partner,  \* device::partner, a weak pointer
    wants,    \* devices with wants_to_negotiate
    active,   \* devices with active_negotiating
    offers,   \* devices with an offer_cache
    answers,  \* devices with an answer_cache
    cands,    \* size of candidates_cache
    out,      \* what the last step sent on every connection
    failed    \* the assertions that did not hold so far

registry == <<conn, slot, regKey, regToken>>
devices  == <<live, partner, wants, active, offers, answers, cands>>
serverVars == <<registry, devices, out, failed>>

Index == {0, 1}
ConnsOrNone == Conns \cup {None}
Messages == {"create_offer", "offer", "answer", "ice_candidate"}
Assertions == {"register:51", "register:74", "send_answer:46",
               "send_answer:52", "on_answer:99", "on_offer:111"}

Quiet == [c \in Conns |-> <<>>]

-----------------------------------------------------------------------------
(* The devices, as a record that the methods of device transform.          *)

State == [live |-> live, partner |-> partner, wants |-> wants,
          active |-> active, offers |-> offers, answers |-> answers,
          cands |-> cands, out |-> Quiet, failed |-> {}]

Send(s, d, m) == [s EXCEPT !.out[d] = Append(@, m)]

BoostAssert(s, holds, which) ==
    IF holds THEN s ELSE [s EXCEPT !.failed = @ \cup {which}]

\* partner.lock()
Partner(s, d) == IF s.partner[d] \in s.live THEN s.partner[d] ELSE None

SendIce(s, d, n) ==
    [s EXCEPT !.out[d] = @ \o [i \in 1..n |-> "ice_candidate"]]

\* Mutant: the negotiation of the partner is not looked at.
NegotiateGreedily(s, d) ==
    IF d \in s.wants /\ d \notin s.active /\ Partner(s, d) # None
      THEN Send([s EXCEPT !.active = @ \cup {d}, !.wants = @ \ {d}],
                d, "create_offer")
      ELSE s

Negotiate(s, d) ==
    LET p == Partner(s, d) IN
    IF d \in s.wants /\ d \notin s.active /\ p # None /\ p \notin s.active
      THEN Send([s EXCEPT !.active = @ \cup {d}, !.wants = @ \ {d}],
                d, "create_offer")
      ELSE s

\* Mutant: the end of a negotiation does not take up the partner's wish.
SendAnswerSelfish(s, d) ==
    LET asserted == BoostAssert(Send(s, d, "answer"), d \in s.active,
                           "send_answer:46")
    IN  Negotiate([asserted EXCEPT !.active = @ \ {d}], d)

SendAnswer(s, d) ==
    LET asserted == BoostAssert(Send(s, d, "answer"), d \in s.active,
                           "send_answer:46")
        ended    == Negotiate([asserted EXCEPT !.active = @ \ {d}], d)
        p        == Partner(ended, d)
    IN  IF d \in ended.active THEN ended
        ELSE IF p = None THEN BoostAssert(ended, FALSE, "send_answer:52")
        ELSE Negotiate(ended, p)

\* Mutant: the cached answer is cleared with the offer and never sent.
SendCacheNoAnswer(s, d) ==
    LET p   == Partner(s, d)
        ice == [SendIce(s, p, s.cands[d]) EXCEPT !.cands[d] = 0]
    IN  [IF d \in ice.offers THEN Send(ice, p, "offer") ELSE ice
           EXCEPT !.offers = @ \ {d}, !.answers = @ \ {d}]

SendCache(s, d) ==
    LET p      == Partner(s, d)
        ice    == [SendIce(s, p, s.cands[d]) EXCEPT !.cands[d] = 0]
        offer  == IF d \in ice.offers THEN Send(ice, p, "offer") ELSE ice
        answer == IF d \in offer.answers THEN SendAnswer(offer, p) ELSE offer
    IN  [answer EXCEPT !.offers = @ \ {d}, !.answers = @ \ {d}]

\* Mutant: the cache stays where it is when the partner comes.
SetPartnerKeepCache(s, d, p) == Negotiate([s EXCEPT !.partner[d] = p], d)

SetPartner(s, d, p) ==
    Negotiate(SendCache([s EXCEPT !.partner[d] = p], d), d)

\* Mutant: the wish that the running negotiation came from is not restored.
ResetPartnerForget(s, d) ==
    [s EXCEPT !.partner[d] = None, !.active = @ \ {d}]

\* Mutant: a device that negotiates nothing keeps its partner.
ResetPartnerKeep(s, d) ==
    IF d \notin s.active THEN s
    ELSE [s EXCEPT !.partner[d] = None, !.active = @ \ {d}, !.wants = @ \cup {d}]

ResetPartner(s, d) ==
    LET alone == [s EXCEPT !.partner[d] = None] IN
    IF d \notin s.active THEN alone
    ELSE [alone EXCEPT !.active = @ \ {d}, !.wants = @ \cup {d}]

NewDevice(s, d) ==
    [s EXCEPT !.live = @ \cup {d}, !.partner[d] = None, !.cands[d] = 0,
              !.wants = @ \ {d}, !.active = @ \ {d},
              !.offers = @ \ {d}, !.answers = @ \ {d}]

\* Mutant: what the device cached outlives it.
DestroyKeepCache(s, d) ==
    [s EXCEPT !.live = @ \ {d}, !.partner[d] = None, !.cands[d] = 0,
              !.wants = @ \ {d}, !.active = @ \ {d}]

\* Destroying a device disconnects its callbacks and expires its weak pointers.
Destroy(s, d) ==
    [s EXCEPT !.live = @ \ {d}, !.partner[d] = None, !.cands[d] = 0,
              !.wants = @ \ {d}, !.active = @ \ {d},
              !.offers = @ \ {d}, !.answers = @ \ {d}]

-----------------------------------------------------------------------------
(* The effect of a handler.  A failed assertion ends a Debug build: nothing *)
(* of the step is seen outside, and no handler runs any more.               *)

Running == ~Asserts \/ failed = {}
Aborts(s) == Asserts /\ s.failed # {}

Become(s) ==
    LET r == IF Aborts(s) THEN [State EXCEPT !.failed = s.failed] ELSE s IN
    /\ live' = r.live
    /\ partner' = r.partner
    /\ wants' = r.wants
    /\ active' = r.active
    /\ offers' = r.offers
    /\ answers' = r.answers
    /\ cands' = r.cands
    /\ out' = r.out
    /\ failed' = failed \cup r.failed

-----------------------------------------------------------------------------
(* registration_handler                                                    *)

\* server::on_connection: the connection is created and starts reading.
Accept(c) ==
    /\ Running
    /\ conn[c] = "idle"
    /\ conn' = [conn EXCEPT ![c] = "open"]
    /\ out' = Quiet
    /\ UNCHANGED <<slot, regKey, regToken, devices, failed>>

\* The slot a registration takes: its token's, else the first empty one.
HasToken(k, i, t) == slot[k][i] # None /\ regToken[slot[k][i]] = t

\* Mutant: the token is not looked at, the first empty slot is taken.
SlotOfFirstEmpty(k, t) == IF slot[k][0] = None THEN 0 ELSE 1

SlotOf(k, t) ==
    IF HasToken(k, 1, t) THEN 1
    ELSE IF HasToken(k, 0, t) \/ slot[k][0] = None THEN 0
    ELSE 1

\* registration_handler::register_
Register(c, k, t) ==
    LET mine    == SlotOf(k, t)
        old     == slot[k][mine]
        other   == slot[k][1 - mine]
        placed  == BoostAssert(NewDevice(State, c),
                          \E i \in Index : slot[k][i] = None \/ HasToken(k, i, t),
                          "register:51")
        alone   == IF old = None THEN placed ELSE Destroy(placed, old)
        checked == BoostAssert(alone, other = None \/ regToken[other] # t,
                          "register:74")
        paired  == IF other = None THEN checked
                   ELSE SetPartner(SetPartner(checked, c, other), other, c)
    IN  /\ Running
        /\ conn[c] = "open"
        /\ c \notin live
        /\ Become(paired)
        /\ IF Aborts(paired) THEN UNCHANGED registry
           ELSE /\ slot' = [slot EXCEPT ![k][mine] = c]
                /\ regKey' = [regKey EXCEPT ![c] = k]
                /\ regToken' = [regToken EXCEPT ![c] = t]
                /\ conn' = [x \in Conns |-> IF x = old THEN "closed" ELSE conn[x]]

\* Mutant: the entry of the device that closed stays in its slot.
OnClosedKeepSlot(c) ==
    LET k     == regKey[c]
        mine  == IF HasToken(k, 0, regToken[c]) THEN 0 ELSE 1
        other == slot[k][1 - mine]
        gone  == Destroy(IF other = None THEN State
                         ELSE ResetPartner(State, other), slot[k][mine])
    IN  /\ Running
        /\ conn[c] = "open"
        /\ conn' = [conn EXCEPT ![c] = "closed"]
        /\ c \in live
        /\ Become(gone)
        /\ UNCHANGED <<slot, regKey, regToken>>

\* registration_handler::on_device_closed, when the device that closed is
\* registered; a connection that never registered just goes away.
OnClosed(c) ==
    LET k     == regKey[c]
        mine  == IF HasToken(k, 0, regToken[c]) THEN 0 ELSE 1
        other == slot[k][1 - mine]
        gone  == Destroy(IF other = None THEN State
                         ELSE ResetPartner(State, other), slot[k][mine])
    IN  /\ Running
        /\ conn[c] = "open"
        /\ conn' = [conn EXCEPT ![c] = "closed"]
        /\ IF c \in live
           THEN /\ Become(gone)
                /\ slot' = [slot EXCEPT ![k][mine] = None]
                /\ UNCHANGED <<regKey, regToken>>
           ELSE /\ out' = Quiet
                /\ UNCHANGED <<slot, regKey, regToken, devices, failed>>

-----------------------------------------------------------------------------
(* The messages of a registered connection.                                *)

Handles(c) == Running /\ c \in live

OnWantToNegotiate(c) ==
    /\ Handles(c)
    /\ Become(Negotiate([State EXCEPT !.wants = @ \cup {c}], c))
    /\ UNCHANGED registry

OnAnswer(c) ==
    LET p == Partner(State, c) IN
    /\ Handles(c)
    /\ Become(IF p # None THEN SendAnswer(State, p)
              ELSE [BoostAssert(State, c \notin answers, "on_answer:99")
                      EXCEPT !.answers = @ \cup {c}])
    /\ UNCHANGED registry

\* Mutant: the offer is cached although there is a partner.
OnOfferCache(c) ==
    /\ Handles(c)
    /\ Become([State EXCEPT !.offers = @ \cup {c}])
    /\ UNCHANGED registry

OnOffer(c) ==
    LET p == Partner(State, c) IN
    /\ Handles(c)
    /\ Become(IF p # None THEN Send(State, p, "offer")
              ELSE [BoostAssert(State, c \notin offers, "on_offer:111")
                      EXCEPT !.offers = @ \cup {c}])
    /\ UNCHANGED registry

OnIceCandidate(c) ==
    LET p == Partner(State, c) IN
    /\ Handles(c)
    /\ p # None \/ cands[c] < MaxCandidates
    /\ Become(IF p # None THEN SendIce(State, p, 1)
              ELSE [State EXCEPT !.cands[c] = @ + 1])
    /\ UNCHANGED registry

-----------------------------------------------------------------------------
ServerInit ==
    /\ conn = [c \in Conns |-> "idle"]
    /\ slot = [k \in Keys |-> [i \in Index |-> None]]
    /\ regKey = [c \in Conns |-> None]
    /\ regToken = [c \in Conns |-> None]
    /\ live = {} /\ wants = {} /\ active = {} /\ offers = {} /\ answers = {}
    /\ partner = [c \in Conns |-> None]
    /\ cands = [c \in Conns |-> 0]
    /\ out = Quiet
    /\ failed = {}

\* The server among clients that may send it anything at any time.
ServerNext ==
    \E c \in Conns :
        \/ Accept(c)
        \/ \E k \in Keys, t \in Tokens : Register(c, k, t)
        \/ OnWantToNegotiate(c)
        \/ OnAnswer(c)
        \/ OnOffer(c)
        \/ OnIceCandidate(c)
        \/ OnClosed(c)

ServerSpec == ServerInit /\ [][ServerNext]_serverVars

-----------------------------------------------------------------------------
(* Properties                                                              *)

\* Every variable holds values of its type, the weak pointer included.
ServerTypeOK ==
    /\ conn \in [Conns -> {"idle", "open", "closed"}]
    /\ slot \in [Keys -> [Index -> ConnsOrNone]]
    /\ regKey \in [Conns -> Keys \cup {None}]
    /\ regToken \in [Conns -> Tokens \cup {None}]
    /\ partner \in [Conns -> ConnsOrNone]
    /\ cands \in [Conns -> 0..MaxCandidates]
    /\ live \subseteq Conns /\ wants \subseteq live /\ active \subseteq live
    /\ offers \subseteq live /\ answers \subseteq live
    /\ out \in [Conns -> Seq(Messages)]
    /\ failed \subseteq Assertions

\* A device exists exactly as long as it sits in one slot of the key it
\* registered with, and its connection is open: on_device_closed always finds
\* the entry and the token it looks for (registration_handler.cpp:85 and 91),
\* also after a connection was replaced by a reconnect.
RegistryHoldsTheLive ==
    /\ \A k \in Keys, i \in Index :
          slot[k][i] # None =>
              /\ slot[k][i] \in live
              /\ regKey[slot[k][i]] = k
    /\ \A c \in live :
          /\ conn[c] = "open"
          /\ regKey[c] \in Keys
          /\ \E i \in Index : slot[regKey[c]][i] = c

\* The two devices of a key have different tokens: a device that reconnects
\* takes its old place and never becomes its own partner.
TokensDiffer ==
    \A k \in Keys :
        slot[k][0] # None /\ slot[k][1] # None =>
            /\ slot[k][0] # slot[k][1]
            /\ regToken[slot[k][0]] # regToken[slot[k][1]]

\* Partners are mutual: a device points at whatever sits in the other slot of
\* its key, and at nothing when that slot is empty, so no weak pointer dangles
\* between two handlers and a message never goes to a device that was replaced.
PartnersAreMutual ==
    \A k \in Keys, i \in Index :
        slot[k][i] # None => partner[slot[k][i]] = slot[k][1 - i]

\* The two ends of a pair belong to different users and point at each other.
PairsAreSound == TokensDiffer /\ PartnersAreMutual

\* At most one device of a pair negotiates, and only a paired one does: the
\* other end never gets a create_offer while this end's offer is under way.
OneNegotiator ==
    \A d \in active : partner[d] # None /\ partner[d] \notin active

\* A wish to negotiate never lies idle in a pair: while it waits, a
\* negotiation is running whose answer will take it up (device::send_answer).
NoWishIdle ==
    \A d \in wants : partner[d] # None => d \in active \/ partner[d] \in active

\* A paired device caches nothing: whatever came before the partner has been
\* handed on, so messages never overtake the ones cached before them.
CachesOnlyAlone ==
    \A d \in live : partner[d] # None =>
        d \notin offers /\ d \notin answers /\ cands[d] = 0

\* Nothing lies idle in a pair, neither a wish nor a cached message
\* (device.cpp:20-25, 44-56).
NothingLiesIdle == NoWishIdle /\ CachesOnlyAlone

\* A device that stays registered forgets a wish or a running negotiation only
\* when the answer is sent to it: the loss of its partner turns a running
\* negotiation back into a wish (device::reset_partner).
Answered(d) == \E i \in DOMAIN out'[d] : out'[d][i] = "answer"

NegotiationSurvives ==
    [][\A d \in live \cap live' :
         d \in wants \cup active => d \in wants' \cup active' \/ Answered(d)]_serverVars

\* What was cached for a partner that was not there is sent to the partner
\* that comes, the candidates before the offer: nothing is dropped while the
\* device that sent it stays.
CachedIsDelivered ==
    [][\A d \in live \cap live' :
         LET m == out'[partner'[d]]
             Count(x) == {i \in DOMAIN m : m[i] = x}
         IN /\ d \in offers /\ d \notin offers' => Count("offer") # {}
            /\ d \in answers /\ d \notin answers' => Count("answer") # {}
            /\ cands'[d] < cands[d] =>
                 \A i \in 1..cands[d] : m[i] = "ice_candidate"]_serverVars

=============================================================================
