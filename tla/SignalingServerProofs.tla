----------------------- MODULE SignalingServerProofs -----------------------
(***************************************************************************)
(* The registry, the arbitration and the delivery of SignalingServer,      *)
(* proved for any number of keys, tokens and connections, for Debug and    *)
(* Release builds: nothing lies idle in a pair, no wish is forgotten and   *)
(* what was cached is sent.                                                *)
(*                                                                         *)
(* A handler is a chain of device methods on the record State, so the      *)
(* lemmas first say what one method does to a Good state; the theorem then *)
(* follows handler by handler.                                             *)
(***************************************************************************)
EXTENDS SignalingServer, TLAPS

-----------------------------------------------------------------------------
(* The states of the devices between two calls of a handler                *)

States ==
    [live : SUBSET Conns, partner : [Conns -> ConnsOrNone],
     wants : SUBSET Conns, active : SUBSET Conns,
     offers : SUBSET Conns, answers : SUBSET Conns,
     cands : [Conns -> 0..MaxCandidates],
     out : [Conns -> Seq(Messages)], failed : SUBSET Assertions]

Typed(s) ==
    /\ s \in States
    /\ s.wants \subseteq s.live /\ s.active \subseteq s.live
    /\ s.offers \subseteq s.live /\ s.answers \subseteq s.live

Paired(s) ==
    \A d \in s.live : s.partner[d] # None =>
        /\ s.partner[d] \in s.live
        /\ s.partner[d] # d
        /\ s.partner[s.partner[d]] = d

One(s) == \A d \in s.active : s.partner[d] # None /\ s.partner[d] \notin s.active

Good(s) == Typed(s) /\ Paired(s) /\ One(s)

\* t is s after calls that pair and destroy nobody.
SamePairs(s, t) == t.live = s.live /\ t.partner = s.partner

-----------------------------------------------------------------------------
(* The methods                                                             *)

\* Sending changes nothing but the output.
LEMMA SendLemma ==
    ASSUME NEW s, Typed(s), NEW d \in Conns, NEW m \in Messages
    PROVE  /\ Typed(Send(s, d, m))
           /\ SamePairs(s, Send(s, d, m))
           /\ Send(s, d, m).active = s.active
           /\ Send(s, d, m).wants = s.wants
           /\ Send(s, d, m).offers = s.offers
           /\ Send(s, d, m).answers = s.answers
           /\ Send(s, d, m).cands = s.cands
<1>1. Append(s.out[d], m) \in Seq(Messages)
  BY DEF Typed, States
<1> QED
  BY <1>1 DEF Send, Typed, States, SamePairs

\* So does sending the cached candidates.
LEMMA SendIceLemma ==
    ASSUME NEW s, Typed(s), NEW d \in Conns, NEW n \in Nat
    PROVE  /\ Typed(SendIce(s, d, n))
           /\ SamePairs(s, SendIce(s, d, n))
           /\ SendIce(s, d, n).active = s.active
           /\ SendIce(s, d, n).wants = s.wants
           /\ SendIce(s, d, n).offers = s.offers
           /\ SendIce(s, d, n).answers = s.answers
           /\ SendIce(s, d, n).cands = s.cands
<1> DEFINE ice == [i \in 1..n |-> "ice_candidate"]
<1>1. ice \in Seq(Messages)
  BY DEF Messages
<1>2. s.out[d] \o ice \in Seq(Messages)
  BY <1>1 DEF Typed, States
<1> HIDE DEF ice
<1> DEFINE longer == s.out[d] \o ice
<1>3. SendIce(s, d, n) = [s EXCEPT !.out = [s.out EXCEPT ![d] = longer]]
  BY DEF SendIce, ice, Typed, States
<1>4. longer \in Seq(Messages)
  BY <1>2
<1> HIDE DEF longer
<1>5. [s.out EXCEPT ![d] = longer] \in [Conns -> Seq(Messages)]
  BY <1>4 DEF Typed, States
<1> QED
  BY <1>3, <1>5 DEF Typed, States, SamePairs

\* An assertion changes nothing but the list of what failed.
LEMMA AssertLemma ==
    ASSUME NEW s, Typed(s), NEW b, NEW w \in Assertions
    PROVE  /\ Typed(BoostAssert(s, b, w))
           /\ SamePairs(s, BoostAssert(s, b, w))
           /\ BoostAssert(s, b, w).active = s.active
           /\ BoostAssert(s, b, w).wants = s.wants
           /\ BoostAssert(s, b, w).offers = s.offers
           /\ BoostAssert(s, b, w).answers = s.answers
           /\ BoostAssert(s, b, w).cands = s.cands
BY DEF BoostAssert, Typed, States, SamePairs

\* lock() of a weak pointer in a paired state gives the partner.
LEMMA PartnerLemma ==
    ASSUME NEW s, Typed(s), Paired(s), NEW d \in s.live
    PROVE  /\ Partner(s, d) = s.partner[d]
           /\ Partner(s, d) # None => Partner(s, d) \in s.live
BY NoneAssumption DEF Partner, Typed, States, Paired, ConnsOrNone

\* A device whose partner goes has none and negotiates no more; what it
\* negotiated it wishes for.
LEMMA ResetPartnerLemma ==
    ASSUME NEW s, Typed(s), NEW d \in s.live
    PROVE  /\ Typed(ResetPartner(s, d))
           /\ ResetPartner(s, d).live = s.live
           /\ ResetPartner(s, d).failed = s.failed
           /\ ResetPartner(s, d).partner = [s.partner EXCEPT ![d] = None]
           /\ ResetPartner(s, d).active = s.active \ {d}
           /\ ResetPartner(s, d).wants = s.wants \cup ({d} \cap s.active)
           /\ ResetPartner(s, d).offers = s.offers
           /\ ResetPartner(s, d).answers = s.answers
           /\ ResetPartner(s, d).cands = s.cands
           /\ ResetPartner(s, d).out = s.out
<1> DEFINE alone == [s EXCEPT !.partner = [s.partner EXCEPT ![d] = None]]
<1>1. d \in Conns /\ None \in ConnsOrNone
  BY DEF Typed, States, ConnsOrNone
<1>2. [s.partner EXCEPT ![d] = None] \in [Conns -> ConnsOrNone]
  BY <1>1 DEF Typed, States
<1>3. alone = [s EXCEPT !.partner[d] = None]
  BY DEF Typed, States
<1>4. /\ Typed(alone) /\ alone.live = s.live /\ alone.failed = s.failed
      /\ alone.partner = [s.partner EXCEPT ![d] = None]
      /\ alone.active = s.active /\ alone.wants = s.wants
      /\ alone.offers = s.offers /\ alone.answers = s.answers
      /\ alone.cands = s.cands /\ alone.out = s.out
  BY <1>2 DEF Typed, States
<1> HIDE DEF alone
<1>5. CASE d \notin s.active
  <2>1. ResetPartner(s, d) = alone
    BY <1>3, <1>5 DEF ResetPartner
  <2>2. s.active \ {d} = s.active /\ s.wants \cup ({d} \cap s.active) = s.wants
    BY <1>5
  <2> QED
    BY <1>4, <2>1, <2>2
<1>6. CASE d \in s.active
  <2>1. ResetPartner(s, d)
          = [alone EXCEPT !.active = alone.active \ {d}, !.wants = alone.wants \cup {d}]
    BY <1>3, <1>4, <1>6 DEF ResetPartner, Typed, States
  <2> DEFINE fewer == alone.active \ {d}
             more  == alone.wants \cup {d}
  <2>2. fewer \subseteq alone.live /\ more \subseteq alone.live
    BY <1>4 DEF Typed
  <2>3. fewer \in SUBSET Conns /\ more \in SUBSET Conns
    BY <1>4, <2>2 DEF Typed, States
  <2>4. ResetPartner(s, d) = [alone EXCEPT !.active = fewer, !.wants = more]
    BY <2>1
  <2>5. fewer = s.active \ {d} /\ more = s.wants \cup ({d} \cap s.active)
    BY <1>4, <1>6
  <2> HIDE DEF fewer, more
  <2>6. /\ Typed(ResetPartner(s, d))
        /\ ResetPartner(s, d).live = alone.live
        /\ ResetPartner(s, d).failed = alone.failed
        /\ ResetPartner(s, d).partner = alone.partner
        /\ ResetPartner(s, d).active = fewer
        /\ ResetPartner(s, d).wants = more
        /\ ResetPartner(s, d).offers = alone.offers
        /\ ResetPartner(s, d).answers = alone.answers
        /\ ResetPartner(s, d).cands = alone.cands
        /\ ResetPartner(s, d).out = alone.out
    BY <1>4, <2>2, <2>3, <2>4, ZenonT(30) DEF Typed, States
  <2> QED
    BY <1>4, <2>5, <2>6
<1> QED
  BY <1>5, <1>6

\* A device that is created or destroyed has no partner, no wish, no
\* negotiation and an empty cache.
Clean(s, d, alive) ==
    [s EXCEPT !.live = alive, !.partner[d] = None, !.cands[d] = 0,
              !.wants = @ \ {d}, !.active = @ \ {d},
              !.offers = @ \ {d}, !.answers = @ \ {d}]

\* Such a step leaves the others as they were.
LEMMA CleanLemma ==
    ASSUME NEW s, Typed(s), NEW d \in Conns, NEW alive \in SUBSET Conns,
           s.live \ {d} \subseteq alive, NEW t, t = Clean(s, d, alive)
    PROVE  /\ Typed(t) /\ t.live = alive
           /\ \A e \in Conns : t.partner[e] = IF e = d THEN None ELSE s.partner[e]
           /\ \A e \in Conns : t.cands[e] = IF e = d THEN 0 ELSE s.cands[e]
           /\ t.active = s.active \ {d} /\ t.wants = s.wants \ {d}
           /\ t.offers = s.offers \ {d} /\ t.answers = s.answers \ {d}
           /\ t.out = s.out /\ t.failed = s.failed
<1> DEFINE left == [s EXCEPT !.live = alive, !.partner[d] = None,
                      !.wants = @ \ {d}, !.active = @ \ {d},
                      !.offers = @ \ {d}, !.answers = @ \ {d}]
           zeroed == [s.cands EXCEPT ![d] = 0]
<1>1. /\ Typed(left) /\ left.live = alive
      /\ left.partner = [s.partner EXCEPT ![d] = None] /\ left.cands = s.cands
      /\ left.active = s.active \ {d} /\ left.wants = s.wants \ {d}
      /\ left.offers = s.offers \ {d} /\ left.answers = s.answers \ {d}
      /\ left.out = s.out /\ left.failed = s.failed
  BY DEF Typed, States, ConnsOrNone
<1>2. t = [left EXCEPT !.cands = zeroed]
  BY DEF Clean, Typed, States
<1>3. zeroed \in [Conns -> 0..MaxCandidates]
  BY BoundAssumption DEF Typed, States
<1> HIDE DEF left, zeroed
<1>4. /\ Typed(t) /\ t.live = left.live
      /\ t.partner = left.partner /\ t.cands = zeroed
      /\ t.active = left.active /\ t.wants = left.wants
      /\ t.offers = left.offers /\ t.answers = left.answers
      /\ t.out = left.out /\ t.failed = left.failed
  BY <1>1, <1>2, <1>3 DEF Typed, States
<1> QED
  BY <1>1, <1>4 DEF zeroed, Typed, States

\* negotiate() makes a device active only when its partner is not.
LEMMA NegotiateLemma ==
    ASSUME NEW s, Good(s), NEW d \in s.live
    PROVE  /\ Good(Negotiate(s, d))
           /\ SamePairs(s, Negotiate(s, d))
           /\ Negotiate(s, d).offers = s.offers
           /\ Negotiate(s, d).answers = s.answers
           /\ Negotiate(s, d).cands = s.cands
<1> DEFINE p == Partner(s, d)
           t == [s EXCEPT !.active = @ \cup {d}, !.wants = @ \ {d}]
<1>0. d \in Conns
  BY DEF Good, Typed, States
<1>1. CASE d \in s.wants /\ d \notin s.active /\ p # None /\ p \notin s.active
  <2>1. Negotiate(s, d) = Send(t, d, "create_offer")
    BY <1>1 DEF Negotiate
  <2>2. Typed(t) /\ SamePairs(s, t) /\ t.offers = s.offers
          /\ t.answers = s.answers /\ t.cands = s.cands
          /\ t.active = s.active \cup {d}
    BY DEF Good, Typed, States, SamePairs
  <2>3. p = s.partner[d] /\ p \in s.live
    BY <1>1, PartnerLemma DEF Good
  <2>4. Paired(t)
    BY <2>2 DEF Good, Paired, SamePairs
  <2>5. One(t)
    <3> SUFFICES ASSUME NEW e \in t.active
                 PROVE  t.partner[e] # None /\ t.partner[e] \notin t.active
      BY DEF One
    <3>1. CASE e = d
      BY <3>1, <2>2, <2>3, <1>1, NoneAssumption DEF Good, Paired, SamePairs, Typed, States
    <3>2. CASE e # d
      <4>1. e \in s.active /\ e \in s.live
        BY <3>2, <2>2 DEF Good, Typed
      <4>2. s.partner[e] # d
        BY <4>1, <2>3, <1>1 DEF Good, Paired, One
      <4> QED
        BY <4>1, <4>2, <2>2 DEF Good, One, SamePairs
    <3> QED
      BY <3>1, <3>2
  <2> HIDE DEF t
  <2>6. "create_offer" \in Messages
    BY DEF Messages
  <2>7. Typed(Send(t, d, "create_offer")) /\ SamePairs(t, Send(t, d, "create_offer"))
          /\ Send(t, d, "create_offer").active = t.active
          /\ Send(t, d, "create_offer").offers = t.offers
          /\ Send(t, d, "create_offer").answers = t.answers
          /\ Send(t, d, "create_offer").cands = t.cands
    BY <2>2, <2>6, <1>0, SendLemma
  <2> QED
    BY <2>1, <2>2, <2>4, <2>5, <2>7 DEF Good, Paired, One, SamePairs
<1>2. CASE ~(d \in s.wants /\ d \notin s.active /\ p # None /\ p \notin s.active)
  BY <1>2 DEF Negotiate, SamePairs
<1> QED
  BY <1>1, <1>2

\* Ending a negotiation keeps a good state good.
LEMMA EndLemma ==
    ASSUME NEW s, Good(s), NEW d \in s.live
    PROVE  LET t == [s EXCEPT !.active = @ \ {d}] IN
           /\ Good(t) /\ SamePairs(s, t)
           /\ t.offers = s.offers /\ t.answers = s.answers /\ t.cands = s.cands
<1> DEFINE t == [s EXCEPT !.active = @ \ {d}]
<1>1. Typed(t) /\ SamePairs(s, t) /\ t.active = s.active \ {d}
        /\ t.offers = s.offers /\ t.answers = s.answers /\ t.cands = s.cands
  BY DEF Good, Typed, States, SamePairs
<1> HIDE DEF t
<1>2. Good(t)
  BY <1>1 DEF Good, Paired, One, SamePairs
<1>3. QED
  BY <1>1, <1>2 DEF t

\* send_answer() ends the negotiation of d and begins at most one other.
LEMMA SendAnswerLemma ==
    ASSUME NEW s, Good(s), NEW d \in s.live
    PROVE  /\ Good(SendAnswer(s, d))
           /\ SamePairs(s, SendAnswer(s, d))
           /\ SendAnswer(s, d).offers = s.offers
           /\ SendAnswer(s, d).answers = s.answers
           /\ SendAnswer(s, d).cands = s.cands
<1> DEFINE sending  == Send(s, d, "answer")
           asserted == BoostAssert(sending, d \in s.active, "send_answer:46")
           released == [asserted EXCEPT !.active = @ \ {d}]
           ended    == Negotiate(released, d)
           p        == Partner(ended, d)
           Kept(t)  == /\ Good(t) /\ SamePairs(s, t) /\ d \in t.live
                       /\ t.offers = s.offers /\ t.answers = s.answers
                       /\ t.cands = s.cands
<1>0. d \in Conns /\ "answer" \in Messages /\ "send_answer:46" \in Assertions
        /\ "send_answer:52" \in Assertions
  BY DEF Good, Typed, States, Messages, Assertions
<1>1. Kept(sending) /\ sending.active = s.active
  BY <1>0, SendLemma DEF Good, Paired, One, SamePairs
<1> HIDE DEF sending
<1>2. Kept(asserted)
  BY <1>0, <1>1, AssertLemma DEF Good, Paired, One, SamePairs
<1> HIDE DEF asserted
<1>3. Kept(released)
  BY <1>2, EndLemma DEF SamePairs
<1> HIDE DEF released
<1>4. Kept(ended)
  BY <1>3, NegotiateLemma DEF SamePairs
<1> HIDE DEF ended
<1>5. CASE d \in ended.active
  BY <1>4, <1>5 DEF SendAnswer, ended, released, asserted, sending
<1>6. CASE d \notin ended.active /\ p = None
  <2>1. SendAnswer(s, d) = BoostAssert(ended, FALSE, "send_answer:52")
    BY <1>6 DEF SendAnswer, ended, released, asserted, sending
  <2> DEFINE t == BoostAssert(ended, FALSE, "send_answer:52")
  <2>2. Typed(ended)
    BY <1>4 DEF Good
  <2>3. /\ Typed(t) /\ SamePairs(ended, t) /\ t.active = ended.active
        /\ t.offers = ended.offers /\ t.answers = ended.answers
        /\ t.cands = ended.cands
    BY <1>0, <2>2 DEF BoostAssert, Typed, States, SamePairs
  <2> HIDE DEF t
  <2>4. Kept(t)
    BY <2>3, <1>4 DEF Good, Paired, One, SamePairs
  <2> QED
    BY <2>1, <2>4 DEF t
<1>7. CASE d \notin ended.active /\ p # None
  <2>1. SendAnswer(s, d) = Negotiate(ended, p)
    BY <1>7 DEF SendAnswer, ended, released, asserted, sending
  <2>2. p \in ended.live
    BY <1>4, <1>7, PartnerLemma DEF Good
  <2>3. QED
    BY <2>1, <2>2, <1>4, NegotiateLemma DEF SamePairs
<1> QED
  BY <1>5, <1>6, <1>7

\* send_cache() of a paired device empties its caches.
LEMMA SendCacheLemma ==
    ASSUME NEW s, Good(s), NEW d \in s.live, s.partner[d] # None
    PROVE  /\ Good(SendCache(s, d))
           /\ SamePairs(s, SendCache(s, d))
<1> DEFINE p      == Partner(s, d)
           iced   == SendIce(s, p, s.cands[d])
           ice    == [iced EXCEPT !.cands[d] = 0]
           offer  == IF d \in ice.offers THEN Send(ice, p, "offer") ELSE ice
           answer == IF d \in offer.answers THEN SendAnswer(offer, p) ELSE offer
           Kept(t) == Good(t) /\ SamePairs(s, t)
<1>a. Typed(s) /\ Paired(s)
  BY DEF Good
<1>b. p \in s.live /\ p # None
  BY <1>a, PartnerLemma DEF Typed, States
<1>c. p \in Conns /\ d \in Conns /\ s.cands[d] \in 0..MaxCandidates
  BY <1>a, <1>b DEF Typed, States
<1>0. p \in s.live /\ p \in Conns /\ d \in Conns /\ s.cands[d] \in Nat
  BY <1>b, <1>c, BoundAssumption
<1> HIDE DEF p
<1>1. Kept(iced)
  BY <1>0, SendIceLemma DEF Good, Paired, One, SamePairs
<1> HIDE DEF iced
<1>2. Kept(ice)
  <2>1. Typed(iced)
    BY <1>1 DEF Good
  <2> DEFINE emptied == [iced.cands EXCEPT ![d] = 0]
  <2>e. emptied \in [Conns -> 0..MaxCandidates]
    BY <2>1, <1>c, BoundAssumption DEF Typed, States
  <2>i. ice = [iced EXCEPT !.cands = emptied]
    BY <2>1 DEF Typed, States
  <2> HIDE DEF ice, emptied
  <2>2. Typed(ice) /\ SamePairs(iced, ice) /\ ice.active = iced.active
    BY <2>1, <2>e, <2>i DEF Typed, States, SamePairs
  <2> QED
    BY <2>2, <1>1 DEF Good, Paired, One, SamePairs
<1> HIDE DEF ice
<1>3. Kept(offer)
  <2>1. "offer" \in Messages
    BY DEF Messages
  <2>2. Typed(Send(ice, p, "offer")) /\ SamePairs(ice, Send(ice, p, "offer"))
          /\ Send(ice, p, "offer").active = ice.active
    BY <1>0, <1>2, <2>1, SendLemma DEF Good
  <2> QED
    BY <2>2, <1>2 DEF Good, Paired, One, SamePairs
<1> HIDE DEF offer
<1>4. Kept(answer)
  BY <1>0, <1>3, SendAnswerLemma DEF SamePairs
<1> HIDE DEF answer
<1> DEFINE t == [answer EXCEPT !.offers = @ \ {d}, !.answers = @ \ {d}]
<1>5. SendCache(s, d) = t
  BY DEF SendCache, t, answer, offer, ice, iced, p
<1>6. Typed(t) /\ SamePairs(answer, t) /\ t.active = answer.active
  BY <1>4 DEF Good, Typed, States, SamePairs
<1> HIDE DEF t
<1> QED
  BY <1>4, <1>5, <1>6 DEF Good, Paired, One, SamePairs

\* set_partner() that completes a pair keeps a good state good.
LEMMA SetPartnerLemma ==
    ASSUME NEW s, NEW d \in s.live, NEW p \in s.live,
           Good([s EXCEPT !.partner[d] = p]),
           [s EXCEPT !.partner[d] = p].live = s.live,
           [s EXCEPT !.partner[d] = p].partner[d] # None
    PROVE  /\ Good(SetPartner(s, d, p))
           /\ SamePairs([s EXCEPT !.partner[d] = p], SetPartner(s, d, p))
<1> DEFINE b == [s EXCEPT !.partner[d] = p]
<1>1. Good(SendCache(b, d)) /\ SamePairs(b, SendCache(b, d)) /\ d \in SendCache(b, d).live
  BY SendCacheLemma DEF SamePairs
<1> QED
  BY <1>1, NegotiateLemma DEF SetPartner, SamePairs

\* set_partner() of a device that has nothing to say only stores the partner.
LEMMA SilentSetPartner ==
    ASSUME NEW s, Typed(s), NEW d \in s.live, NEW p \in s.live,
           d \notin s.wants, d \notin s.offers, d \notin s.answers, s.cands[d] = 0
    PROVE  LET t == SetPartner(s, d, p) IN
           /\ Typed(t)
           /\ t.live = s.live
           /\ t.partner = [s.partner EXCEPT ![d] = p]
           /\ t.active = s.active
<1> DEFINE b    == [s EXCEPT !.partner[d] = p]
           iced == SendIce(b, p, 0)
           ice  == [iced EXCEPT !.cands[d] = 0]
           t    == [ice EXCEPT !.offers = @ \ {d}, !.answers = @ \ {d}]
<1>0. p \in Conns /\ d \in Conns /\ p # None
  BY NoneAssumption DEF Typed, States
<1>1. Typed(b) /\ b.live = s.live /\ b.partner = [s.partner EXCEPT ![d] = p]
        /\ b.partner[d] = p /\ b.active = s.active /\ b.wants = s.wants
        /\ b.offers = s.offers /\ b.answers = s.answers /\ b.cands = s.cands
  BY <1>0 DEF Typed, States, ConnsOrNone
<1>2. Partner(b, d) = p
  BY <1>1 DEF Partner
<1> HIDE DEF b
<1>3. Typed(iced) /\ SamePairs(b, iced) /\ iced.active = b.active /\ iced.wants = b.wants
        /\ iced.offers = b.offers /\ iced.answers = b.answers
  BY <1>0, <1>1, SendIceLemma
<1> HIDE DEF iced
<1>4. Typed(ice) /\ SamePairs(b, ice) /\ ice.active = b.active /\ ice.wants = b.wants
        /\ ice.offers = b.offers /\ ice.answers = b.answers
  BY <1>0, <1>3, BoundAssumption DEF Typed, States, SamePairs
<1> HIDE DEF ice
<1>5. Typed(t) /\ SamePairs(b, t) /\ t.active = b.active /\ t.wants = b.wants
  BY <1>4 DEF Typed, States, SamePairs
<1>6. SendCache(b, d) = t
  BY <1>1, <1>2, <1>4 DEF SendCache, ice, iced
<1> HIDE DEF t
<1>7. SetPartner(s, d, p) = t
  BY <1>1, <1>5, <1>6 DEF SetPartner, Negotiate, b
<1> QED
  BY <1>1, <1>5, <1>7 DEF SamePairs

-----------------------------------------------------------------------------
(* The inductive invariant.  RegistryHoldsTheLive and TokensDiffer make the *)
(* two slots of a key the only place where a device can sit, which turns    *)
(* PartnersAreMutual, a statement about slots, into Paired, the one about   *)
(* weak pointers that OneNegotiator needs.                                  *)

IInv == /\ ServerTypeOK
        /\ RegistryHoldsTheLive
        /\ TokensDiffer
        /\ PartnersAreMutual
        /\ OneNegotiator

\* A device sits in one slot only.
LEMMA OneSlot ==
    ASSUME IInv, NEW c \in live
    PROVE  \E i \in Index :
             /\ slot[regKey[c]][i] = c
             /\ \A k \in Keys, j \in Index : slot[k][j] = c => k = regKey[c] /\ j = i
<1>1. c # None /\ regKey[c] \in Keys
  BY NoneAssumption DEF IInv, ServerTypeOK, RegistryHoldsTheLive
<1>2. PICK i \in Index : slot[regKey[c]][i] = c
  BY DEF IInv, RegistryHoldsTheLive
<1>3. ASSUME NEW k \in Keys, NEW j \in Index, slot[k][j] = c
      PROVE  k = regKey[c] /\ j = i
  <2>1. k = regKey[c]
    BY <1>1, <1>3 DEF IInv, RegistryHoldsTheLive
  <2>2. CASE j # i
    <3>1. slot[k][0] = c /\ slot[k][1] = c
      BY <1>2, <1>3, <2>1, <2>2 DEF Index
    <3> QED
      BY <1>1, <3>1 DEF IInv, TokensDiffer
  <2> QED
    BY <2>1, <2>2
<1> QED
  BY <1>2, <1>3

\* Between two handlers the devices are in a good state.
LEMMA StateGood == ASSUME IInv PROVE Good(State)
<1>1. Typed(State)
  <2>1. Quiet \in [Conns -> Seq(Messages)]
    BY DEF Quiet
  <2> QED
    BY <2>1 DEF IInv, ServerTypeOK, Typed, States, State
<1>2. Paired(State)
  <2> SUFFICES ASSUME NEW d \in live, partner[d] # None
               PROVE  partner[d] \in live /\ partner[d] # d /\ partner[partner[d]] = d
    BY DEF Paired, State
  <2> DEFINE k == regKey[d]
  <2>1. PICK i \in Index : slot[k][i] = d
    BY OneSlot
  <2>2. k \in Keys /\ 1 - i \in Index /\ 1 - (1 - i) = i /\ d # None
    BY NoneAssumption DEF IInv, ServerTypeOK, RegistryHoldsTheLive, Index
  <2>3. partner[d] = slot[k][1 - i]
    BY <2>1, <2>2 DEF IInv, PartnersAreMutual
  <2>4. partner[partner[d]] = slot[k][i]
    BY <2>2, <2>3 DEF IInv, PartnersAreMutual
  <2>5. partner[d] \in live
    BY <2>2, <2>3 DEF IInv, RegistryHoldsTheLive
  <2>6. slot[k][0] # slot[k][1]
    BY <2>1, <2>2, <2>3 DEF IInv, TokensDiffer, Index
  <2> QED
    BY <2>1, <2>2, <2>3, <2>4, <2>5, <2>6 DEF Index
<1>3. One(State)
  BY DEF IInv, OneNegotiator, One, State
<1> QED
  BY <1>1, <1>2, <1>3 DEF Good

\* The variables after a handler, whether or not an assertion ended it.
LEMMA BecomeLemma ==
    ASSUME IInv, NEW s, Typed(s), Become(s)
    PROVE  /\ live' \subseteq Conns /\ partner' \in [Conns -> ConnsOrNone]
           /\ wants' \subseteq live' /\ active' \subseteq live'
           /\ offers' \subseteq live' /\ answers' \subseteq live'
           /\ cands' \in [Conns -> 0..MaxCandidates]
           /\ out' \in [Conns -> Seq(Messages)] /\ failed' \subseteq Assertions
           /\ Aborts(s) => live' = live /\ partner' = partner /\ active' = active
           /\ ~Aborts(s) => live' = s.live /\ partner' = s.partner /\ active' = s.active
<1> DEFINE r == IF Aborts(s) THEN [State EXCEPT !.failed = s.failed] ELSE s
<1>1. Typed(r)
  BY StateGood DEF Good, Typed, States
<1>2. Aborts(s) => r.live = live /\ r.partner = partner /\ r.active = active
  BY DEF State
<1>3. /\ live' = r.live /\ partner' = r.partner /\ wants' = r.wants
      /\ active' = r.active /\ offers' = r.offers /\ answers' = r.answers
      /\ cands' = r.cands /\ out' = r.out /\ failed' = failed \cup r.failed
  BY DEF Become
<1>4. failed \subseteq Assertions
  BY DEF IInv, ServerTypeOK
<1>5. ~Aborts(s) => r = s
  OBVIOUS
<1> HIDE DEF r
<1> QED
  BY <1>1, <1>2, <1>3, <1>4, <1>5 DEF Typed, States

\* A handler that leaves the pairs as they are keeps the invariant.
LEMMA SamePairsStep ==
    ASSUME IInv, NEW s, Good(s), SamePairs(State, s), Become(s), UNCHANGED registry
    PROVE  IInv'
<1>1. Typed(s)
  BY DEF Good
<1>2. live' = live /\ partner' = partner /\ (active' = active \/ active' = s.active)
  BY <1>1, BecomeLemma DEF SamePairs, State
<1>3. OneNegotiator'
  BY <1>2 DEF IInv, OneNegotiator, Good, One, SamePairs, State
<1>4. ServerTypeOK'
  BY <1>1, BecomeLemma DEF IInv, ServerTypeOK, registry
<1> QED
  BY <1>2, <1>3, <1>4 DEF IInv, RegistryHoldsTheLive, TokensDiffer, PartnersAreMutual, registry

-----------------------------------------------------------------------------
(* The messages of a registered connection                                 *)

\* A handler called on a device that is ready to negotiate.
LEMMA WantStep ==
    ASSUME IInv, NEW c \in Conns, OnWantToNegotiate(c)
    PROVE  IInv'
<1> DEFINE s == [State EXCEPT !.wants = @ \cup {c}]
<1>1. Good(State) /\ c \in live
  BY StateGood DEF OnWantToNegotiate, Handles
<1>2. Typed(s) /\ SamePairs(State, s) /\ s.active = State.active /\ c \in s.live
  BY <1>1 DEF Good, Typed, States, State, SamePairs
<1> HIDE DEF s
<1>3. Good(s)
  BY <1>1, <1>2 DEF Good, Paired, One, SamePairs
<1>4. Good(Negotiate(s, c)) /\ SamePairs(State, Negotiate(s, c))
  BY <1>2, <1>3, NegotiateLemma DEF SamePairs
<1> QED
  BY <1>4, SamePairsStep DEF OnWantToNegotiate, s

\* An answer goes to the partner or waits for it.
LEMMA AnswerStep ==
    ASSUME IInv, NEW c \in Conns, OnAnswer(c)
    PROVE  IInv'
<1> DEFINE p == Partner(State, c)
           asserted == BoostAssert(State, c \notin answers, "on_answer:99")
           cached == [asserted EXCEPT !.answers = @ \cup {c}]
<1>1. Good(State) /\ c \in live /\ c \in State.live
  BY StateGood DEF OnAnswer, Handles, State
<1>2. CASE p # None
  <2>1. p \in State.live
    BY <1>1, <1>2, PartnerLemma DEF Good
  <2>2. Good(SendAnswer(State, p)) /\ SamePairs(State, SendAnswer(State, p))
    BY <1>1, <2>1, SendAnswerLemma
  <2> QED
    BY <1>2, <2>2, SamePairsStep DEF OnAnswer
<1>3. CASE p = None
  <2>1. "on_answer:99" \in Assertions
    BY DEF Assertions
  <2>2. Typed(asserted) /\ SamePairs(State, asserted) /\ asserted.active = State.active
    BY <1>1, <2>1, AssertLemma DEF Good
  <2> HIDE DEF asserted
  <2>3. Typed(cached) /\ SamePairs(State, cached) /\ cached.active = State.active
    BY <1>1, <2>2 DEF Typed, States, SamePairs
  <2> HIDE DEF cached
  <2>4. Good(cached)
    BY <1>1, <2>3 DEF Good, Paired, One, SamePairs
  <2>5. Become(cached) /\ UNCHANGED registry
    BY <1>3 DEF OnAnswer, cached, asserted
  <2> QED
    BY <2>3, <2>4, <2>5, SamePairsStep
<1> QED
  BY <1>2, <1>3

\* An offer goes to the partner or waits for it.
LEMMA OfferStep ==
    ASSUME IInv, NEW c \in Conns, OnOffer(c)
    PROVE  IInv'
<1> DEFINE p == Partner(State, c)
           asserted == BoostAssert(State, c \notin offers, "on_offer:111")
           cached == [asserted EXCEPT !.offers = @ \cup {c}]
<1>1. Good(State) /\ c \in live /\ c \in State.live
  BY StateGood DEF OnOffer, Handles, State
<1>2. CASE p # None
  <2>1. p \in Conns /\ "offer" \in Messages
    BY <1>1, <1>2, PartnerLemma DEF Good, Typed, States, Messages
  <2>2. Typed(Send(State, p, "offer")) /\ SamePairs(State, Send(State, p, "offer"))
          /\ Send(State, p, "offer").active = State.active
    BY <1>1, <2>1, SendLemma DEF Good
  <2>3. Good(Send(State, p, "offer"))
    BY <1>1, <2>2 DEF Good, Paired, One, SamePairs
  <2> QED
    BY <1>2, <2>2, <2>3, SamePairsStep DEF OnOffer
<1>3. CASE p = None
  <2>1. "on_offer:111" \in Assertions
    BY DEF Assertions
  <2>2. Typed(asserted) /\ SamePairs(State, asserted) /\ asserted.active = State.active
    BY <1>1, <2>1, AssertLemma DEF Good
  <2> HIDE DEF asserted
  <2>3. Typed(cached) /\ SamePairs(State, cached) /\ cached.active = State.active
    BY <1>1, <2>2 DEF Typed, States, SamePairs
  <2> HIDE DEF cached
  <2>4. Good(cached)
    BY <1>1, <2>3 DEF Good, Paired, One, SamePairs
  <2>5. Become(cached) /\ UNCHANGED registry
    BY <1>3 DEF OnOffer, cached, asserted
  <2> QED
    BY <2>3, <2>4, <2>5, SamePairsStep
<1> QED
  BY <1>2, <1>3

\* A candidate goes to the partner or joins the queue.
LEMMA IceStep ==
    ASSUME IInv, NEW c \in Conns, OnIceCandidate(c)
    PROVE  IInv'
<1> DEFINE p == Partner(State, c)
           cached == [State EXCEPT !.cands[c] = @ + 1]
<1>1. Good(State) /\ c \in live /\ c \in State.live
  BY StateGood DEF OnIceCandidate, Handles, State
<1>2. CASE p # None
  <2>1. p \in Conns
    BY <1>1, <1>2, PartnerLemma DEF Good, Typed, States
  <2>2. Typed(SendIce(State, p, 1)) /\ SamePairs(State, SendIce(State, p, 1))
          /\ SendIce(State, p, 1).active = State.active
    BY <1>1, <2>1, SendIceLemma DEF Good
  <2>3. Good(SendIce(State, p, 1))
    BY <1>1, <2>2 DEF Good, Paired, One, SamePairs
  <2> QED
    BY <1>2, <2>2, <2>3, SamePairsStep DEF OnIceCandidate
<1>3. CASE p = None
  <2>1. cands[c] < MaxCandidates /\ cands[c] \in 0..MaxCandidates
    BY <1>1, <1>3 DEF OnIceCandidate, IInv, ServerTypeOK
  <2> DEFINE more == [cands EXCEPT ![c] = @ + 1]
  <2>2. more \in [Conns -> 0..MaxCandidates]
    BY <2>1, BoundAssumption DEF IInv, ServerTypeOK
  <2>3. cached = [State EXCEPT !.cands = more]
    BY DEF State
  <2> HIDE DEF more, cached
  <2>4. Typed(cached) /\ SamePairs(State, cached) /\ cached.active = State.active
    BY <1>1, <2>2, <2>3 DEF Good, Typed, States, SamePairs
  <2>5. Good(cached)
    BY <1>1, <2>4 DEF Good, Paired, One, SamePairs
  <2>6. Become(cached) /\ UNCHANGED registry
    BY <1>3 DEF OnIceCandidate, cached
  <2> QED
    BY <2>4, <2>5, <2>6, SamePairsStep
<1> QED
  BY <1>2, <1>3

-----------------------------------------------------------------------------
(* Connections that come and go                                            *)

\* A step that changes no device and no slot keeps the invariant.
LEMMA NothingMoves ==
    ASSUME IInv, ServerTypeOK', UNCHANGED <<live, partner, active, slot, regKey, regToken>>,
           \A c \in live : conn'[c] = conn[c]
    PROVE  IInv'
<1>1. RegistryHoldsTheLive'
  BY DEF IInv, RegistryHoldsTheLive
<1> QED
  BY <1>1 DEF IInv, TokensDiffer, PartnersAreMutual, OneNegotiator

\* An accepted connection has no device yet.
LEMMA AcceptStep ==
    ASSUME IInv, NEW c \in Conns, Accept(c)
    PROVE  IInv'
<1>1. c \notin live
  BY DEF IInv, RegistryHoldsTheLive, Accept
<1>2. Quiet \in [Conns -> Seq(Messages)]
  BY DEF Quiet
<1>3. ServerTypeOK'
  BY <1>2 DEF IInv, ServerTypeOK, Accept, devices
<1> QED
  BY <1>1, <1>3, NothingMoves DEF Accept, devices, IInv, ServerTypeOK

\* The slot on_device_closed finds, and what sits in the other one.
MineOf(c) == IF HasToken(regKey[c], 0, regToken[c]) THEN 0 ELSE 1
OtherThan(c) == slot[regKey[c]][1 - MineOf(c)]

\* The slot is the one the device sits in, the other one holds its partner.
LEMMA ClosedSlot ==
    ASSUME IInv, NEW c \in live,
           NEW mine, mine = MineOf(c), NEW other, other = OtherThan(c)
    PROVE  /\ mine \in Index /\ 1 - mine \in Index /\ mine # 1 - mine
           /\ regKey[c] \in Keys /\ slot[regKey[c]][mine] = c /\ c # None
           /\ other \in ConnsOrNone /\ other # c
           /\ other # None => other \in live /\ partner[other] = c
           /\ partner[c] = other
<1>1. regKey[c] \in Keys /\ c # None
  BY NoneAssumption DEF IInv, ServerTypeOK, RegistryHoldsTheLive
<1>2. PICK i \in Index : slot[regKey[c]][i] = c
  BY OneSlot
<1>3. slot[regKey[c]][mine] = c
  BY <1>1, <1>2 DEF MineOf, HasToken, Index, IInv, TokensDiffer
<1>4. /\ mine \in Index /\ 1 - mine \in Index /\ mine # 1 - mine
      /\ 1 - (1 - mine) = mine
  BY DEF Index, MineOf
<1>5. other = slot[regKey[c]][1 - mine]
  BY DEF OtherThan
<1>6. other \in ConnsOrNone /\ other # c
  BY <1>1, <1>3, <1>4, <1>5 DEF Index, IInv, ServerTypeOK, TokensDiffer
<1>7. /\ other # None => other \in live /\ partner[other] = c
      /\ partner[c] = other
  BY <1>1, <1>3, <1>4, <1>5 DEF IInv, RegistryHoldsTheLive, PartnersAreMutual
<1> QED
  BY <1>1, <1>3, <1>4, <1>6, <1>7

\* A device leaves its slot, and its partner stays alone.
LEMMA ClosedStep ==
    ASSUME IInv, NEW c \in Conns, OnClosed(c)
    PROVE  IInv'
<1>1. CASE c \notin live
  <2>1. Quiet \in [Conns -> Seq(Messages)]
    BY DEF Quiet
  <2>2. ServerTypeOK'
    BY <1>1, <2>1 DEF OnClosed, IInv, ServerTypeOK, devices
  <2> QED
    BY <1>1, <2>2, NothingMoves DEF OnClosed, devices, IInv, ServerTypeOK
<1>2. CASE c \in live
  <2> DEFINE k     == regKey[c]
             mine  == MineOf(c)
             other == OtherThan(c)
             reset == IF other = None THEN State ELSE ResetPartner(State, other)
             gone  == Destroy(reset, c)
  <2>1. mine \in Index /\ 1 - mine \in Index /\ mine # 1 - mine
    BY <1>2, ClosedSlot
  <2>2. k \in Keys /\ slot[k][mine] = c /\ c # None /\ other = slot[k][1 - mine]
    BY <1>2, ClosedSlot DEF OtherThan
  <2>3. other \in ConnsOrNone /\ other # c
    BY <1>2, ClosedSlot
  <2>4. other # None => other \in live /\ partner[other] = c
    BY <1>2, ClosedSlot
  <2>5. partner[c] = other
    BY <1>2, ClosedSlot
  <2>6. Become(gone) /\ slot' = [slot EXCEPT ![k][mine] = None]
          /\ UNCHANGED <<regKey, regToken>> /\ conn' = [conn EXCEPT ![c] = "closed"]
    BY <1>2, <2>2 DEF OnClosed, MineOf, OtherThan
  <2> HIDE DEF mine
  <2> HIDE DEF other
  <2>7. Good(State)
    BY StateGood
  <2>8. /\ Typed(reset) /\ reset.live = live /\ reset.failed = {}
        /\ reset.partner = IF other = None THEN partner ELSE [partner EXCEPT ![other] = None]
        /\ reset.active = active \ {other}
    <3>1. CASE other = None
      BY <2>7, <3>1, NoneAssumption DEF Good, Typed, State, IInv, ServerTypeOK
    <3>2. CASE other # None
      <4>1. Typed(State) /\ State.live = live /\ State.failed = {}
            /\ State.partner = partner /\ State.active = active
        BY <2>7 DEF Good, State
      <4>2. other \in State.live
        BY <2>4, <3>2, <4>1
      <4> QED
        BY <3>2, <4>1, <4>2, ResetPartnerLemma DEF reset
    <3> QED
      BY <3>1, <3>2
  <2> HIDE DEF reset
  <2> DEFINE rest == live \ {c}
  <2>9. rest \in SUBSET Conns /\ reset.live \ {c} \subseteq rest /\ Typed(reset)
          /\ c \in Conns /\ gone = Clean(reset, c, rest) /\ gone.failed = {}
    BY <2>8 DEF Destroy, Clean, Typed, States
  <2> HIDE DEF gone, rest
  <2>a. /\ Typed(gone) /\ gone.live = rest /\ gone.active = reset.active \ {c}
        /\ \A d \in Conns :
              gone.partner[d] = IF d = c THEN None ELSE reset.partner[d]
    BY <2>9, CleanLemma
  <2>10. ~Aborts(gone)
    BY <2>9 DEF Aborts
  <2>11. /\ live' = live \ {c}
         /\ \A d \in Conns :
               partner'[d] = IF d = c THEN None ELSE reset.partner[d]
         /\ active' = active \ {other, c}
    BY <2>6, <2>8, <2>a, <2>10, BecomeLemma DEF rest
  <2>12. /\ partner'[c] = None
         /\ \A d \in Conns \ {c} : partner'[d] = IF d = other THEN None ELSE partner[d]
    BY <1>2, <2>3, <2>8, <2>11, NoneAssumption DEF IInv, ServerTypeOK
  <2>13. \A x \in Keys, j \in Index :
            slot'[x][j] = IF x = k /\ j = mine THEN None ELSE slot[x][j]
    BY <2>1, <2>2, <2>6 DEF IInv, ServerTypeOK
  <2>14. \A x \in Keys, j \in Index : slot[x][j] = c => x = k /\ j = mine
    BY <1>2, <2>1, <2>2, OneSlot
  <2>15. RegistryHoldsTheLive'
    <3>1. ASSUME NEW x \in Keys, NEW j \in Index, slot'[x][j] # None
          PROVE  slot'[x][j] \in live' /\ regKey'[slot'[x][j]] = x
      BY <2>6, <2>11, <2>13, <2>14, <3>1 DEF IInv, RegistryHoldsTheLive
    <3>2. ASSUME NEW d \in live'
          PROVE  /\ conn'[d] = "open" /\ regKey'[d] \in Keys
                 /\ \E j \in Index : slot'[regKey'[d]][j] = d
      <4>1. d \in live /\ d # c
        BY <2>11
      <4>2. conn'[d] = "open" /\ regKey'[d] = regKey[d] /\ regKey[d] \in Keys
        BY <2>6, <4>1 DEF IInv, ServerTypeOK, RegistryHoldsTheLive
      <4>3. PICK j \in Index : slot[regKey[d]][j] = d
        BY <4>1, OneSlot
      <4> QED
        BY <2>2, <2>13, <4>1, <4>2, <4>3
    <3> QED
      BY <3>1, <3>2 DEF RegistryHoldsTheLive
  <2>16. TokensDiffer'
    <3> SUFFICES ASSUME NEW x \in Keys, slot'[x][0] # None, slot'[x][1] # None
                 PROVE  /\ slot'[x][0] # slot'[x][1]
                        /\ regToken'[slot'[x][0]] # regToken'[slot'[x][1]]
      BY DEF TokensDiffer
    <3>1. slot'[x][0] = slot[x][0] /\ slot'[x][1] = slot[x][1]
      BY <2>13 DEF Index
    <3>2. regToken' = regToken
      BY <2>6
    <3> QED
      BY <3>1, <3>2 DEF IInv, TokensDiffer
  <2>17. PartnersAreMutual'
    <3> SUFFICES ASSUME NEW x \in Keys, NEW j \in Index, slot'[x][j] # None
                 PROVE  partner'[slot'[x][j]] = slot'[x][1 - j]
      BY DEF PartnersAreMutual
    <3>1. 1 - j \in Index
      BY DEF Index
    <3>2. slot'[x][j] = slot[x][j] /\ slot[x][j] # c /\ slot[x][j] \in Conns
      BY <2>13, <2>14 DEF IInv, ServerTypeOK, ConnsOrNone
    <3>3. partner[slot[x][j]] = slot[x][1 - j]
      BY <3>2 DEF IInv, PartnersAreMutual
    <3>4. CASE slot[x][j] = other
      <4>1. slot[x][1 - j] = c
        BY <3>2, <3>3, <3>4, <2>4
      <4> QED
        BY <2>12, <2>13, <2>14, <3>1, <3>2, <3>4, <4>1
    <3>5. CASE slot[x][j] # other
      <4>1. ~(x = k /\ 1 - j = mine)
        <5>1. CASE x = k /\ 1 - j = mine
          <6>1. j = 1 - mine
            BY <2>1, <5>1 DEF Index
          <6> QED
            BY <2>2, <3>5, <5>1, <6>1
        <5> QED
          BY <5>1
      <4> QED
        BY <2>12, <2>13, <3>1, <3>2, <3>3, <3>5, <4>1
    <3> QED
      BY <3>4, <3>5
  <2>18. OneNegotiator'
    <3> SUFFICES ASSUME NEW d \in active'
                 PROVE  partner'[d] # None /\ partner'[d] \notin active'
      BY DEF OneNegotiator
    <3>1. d \in active /\ d # c /\ d # other /\ d \in Conns
      BY <2>11 DEF IInv, ServerTypeOK
    <3> QED
      BY <2>11, <2>12, <3>1 DEF IInv, OneNegotiator
  <2>19. ServerTypeOK'
    <3>1. conn' \in [Conns -> {"idle", "open", "closed"}]
      BY <2>6 DEF IInv, ServerTypeOK
    <3>2. slot' \in [Keys -> [Index -> ConnsOrNone]]
      BY <2>1, <2>2, <2>6 DEF IInv, ServerTypeOK, ConnsOrNone
    <3> QED
      BY <2>6, <2>a, <3>1, <3>2, BecomeLemma DEF IInv, ServerTypeOK
  <2> QED
    BY <2>15, <2>16, <2>17, <2>18, <2>19 DEF IInv
<1> QED
  BY <1>1, <1>2

-----------------------------------------------------------------------------
(* Registration                                                            *)

\* A new device takes its own place or an empty one: the other place never
\* holds a device with its token.
LEMMA RegisteredSlot ==
    ASSUME IInv, NEW k \in Keys, NEW t \in Tokens
    PROVE  LET mine == SlotOf(k, t) IN
           /\ mine \in Index /\ 1 - mine \in Index /\ mine # 1 - mine
           /\ 1 - (1 - mine) = mine
           /\ slot[k][1 - mine] # None => regToken[slot[k][1 - mine]] # t
BY DEF SlotOf, HasToken, Index, IInv, TokensDiffer

\* A device without a wish and with empty caches.
Fresh(s, c) == /\ c \notin s.wants /\ c \notin s.offers
               /\ c \notin s.answers /\ s.cands[c] = 0

\* The device that registers is new and alone, the others are as they were.
LEMMA NewLemma ==
    ASSUME IInv, NEW c \in Conns, c \notin live, NEW s, s = NewDevice(State, c)
    PROVE  /\ Typed(s) /\ s.live = live \cup {c} /\ s.active = active /\ Fresh(s, c)
           /\ s.wants = wants /\ s.offers = offers /\ s.answers = answers
           /\ s.out = Quiet /\ \A d \in live : s.cands[d] = cands[d]
           /\ \A d \in Conns : s.partner[d] = IF d = c THEN None ELSE partner[d]
<1> DEFINE more == live \cup {c}
<1>1. s = Clean(State, c, more) /\ State.live = live
      /\ State.partner = partner /\ State.active = active /\ State.cands = cands
      /\ State.wants = wants /\ State.offers = offers /\ State.answers = answers
      /\ State.out = Quiet
  BY DEF NewDevice, Clean, State
<1>2. more \in SUBSET Conns /\ State.live \ {c} \subseteq more /\ Typed(State)
        /\ c \notin active /\ c \notin wants /\ c \notin offers /\ c \notin answers
        /\ live \subseteq Conns
  BY <1>1, StateGood DEF IInv, ServerTypeOK, Good
<1> HIDE DEF more
<1>3. /\ Typed(s) /\ s.live = more
      /\ \A d \in Conns : s.partner[d] = IF d = c THEN None ELSE State.partner[d]
      /\ \A d \in Conns : s.cands[d] = IF d = c THEN 0 ELSE State.cands[d]
      /\ s.active = State.active \ {c} /\ s.wants = State.wants \ {c}
      /\ s.offers = State.offers \ {c} /\ s.answers = State.answers \ {c}
      /\ s.out = State.out
  BY <1>1, <1>2, CleanLemma
<1>4. /\ s.live = live \cup {c} /\ s.active = active /\ s.wants = wants
      /\ s.offers = offers /\ s.answers = answers
  <2>1. active \ {c} = active /\ wants \ {c} = wants
    BY <1>2
  <2>2. offers \ {c} = offers /\ answers \ {c} = answers
    BY <1>2
  <2> QED
    BY <1>1, <1>3, <2>1, <2>2 DEF more
<1>5. Fresh(s, c)
  BY <1>2, <1>3, <1>4 DEF Fresh
<1>6. \A d \in live : s.cands[d] = cands[d]
  BY <1>1, <1>2, <1>3
<1> QED
  BY <1>1, <1>3, <1>4, <1>5, <1>6

\* The device it replaces is destroyed.
LEMMA ReplaceLemma ==
    ASSUME NEW s, Typed(s), NEW c \in Conns, Fresh(s, c), NEW old \in s.live, old # c,
           NEW t, t = Destroy(s, old)
    PROVE  /\ Typed(t) /\ t.live = s.live \ {old} /\ t.active = s.active \ {old}
           /\ Fresh(t, c)
           /\ t.wants = s.wants \ {old} /\ t.offers = s.offers \ {old}
           /\ t.answers = s.answers \ {old} /\ t.out = s.out
           /\ \A d \in Conns \ {old} : t.cands[d] = s.cands[d]
           /\ \A d \in Conns : t.partner[d] = IF d = old THEN None ELSE s.partner[d]
<1> DEFINE rest == s.live \ {old}
<1>1. t = Clean(s, old, rest)
  BY DEF Destroy, Clean
<1>2. rest \in SUBSET Conns /\ s.live \ {old} \subseteq rest /\ old \in Conns
  BY DEF Typed, States
<1> HIDE DEF rest
<1>3. /\ Typed(t) /\ t.live = rest
      /\ \A d \in Conns : t.partner[d] = IF d = old THEN None ELSE s.partner[d]
      /\ \A d \in Conns : t.cands[d] = IF d = old THEN 0 ELSE s.cands[d]
      /\ t.active = s.active \ {old} /\ t.wants = s.wants \ {old}
      /\ t.offers = s.offers \ {old} /\ t.answers = s.answers \ {old}
      /\ t.out = s.out
  BY <1>1, <1>2, CleanLemma
<1> QED
  BY <1>3 DEF rest, Fresh

\* Nobody but c and other points at c or other; the rest is paired and one of
\* a pair negotiates.
Apart(s, c, other) ==
    /\ \A d \in s.live \ {c, other} : s.partner[d] # None =>
          /\ s.partner[d] \in s.live \ {c, other, d}
          /\ s.partner[s.partner[d]] = d
    /\ \A d \in s.active \ {other} :
          s.partner[d] # None /\ s.partner[d] \notin s.active

\* c and other point at each other, and other has not said anything yet.
Completed(s, c, other) == [SetPartner(s, c, other) EXCEPT !.partner[other] = c]

\* Two devices that point at nothing else point at each other: a good state.
LEMMA CompletedLemma ==
    ASSUME NEW s, Typed(s), NEW c \in s.live, NEW other \in s.live, c # other,
           c \notin s.wants, c \notin s.offers, c \notin s.answers, s.cands[c] = 0,
           c \notin s.active,
           Apart(s, c, other),
           NEW b, b = Completed(s, c, other)
    PROVE  /\ Good(b) /\ b.live = s.live /\ b.active = s.active
           /\ \A d \in Conns : b.partner[d] = IF d = c THEN other
                                           ELSE IF d = other THEN c ELSE s.partner[d]
<1> DEFINE s1 == SetPartner(s, c, other)
<1>0. c \in Conns /\ other \in Conns /\ c # None /\ other # None
        /\ s.live \subseteq Conns /\ s.active \subseteq s.live
  BY NoneAssumption DEF Typed, States
<1>1. /\ Typed(s1) /\ s1.live = s.live /\ s1.active = s.active
      /\ s1.partner = [s.partner EXCEPT ![c] = other]
  BY SilentSetPartner
<1>b. b = [s1 EXCEPT !.partner[other] = c]
  BY DEF Completed
<1> HIDE DEF s1
<1>2. /\ Typed(b) /\ b.live = s.live /\ b.active = s.active
      /\ b.partner = [s1.partner EXCEPT ![other] = c]
  <2> DEFINE q == [s1.partner EXCEPT ![other] = c]
  <2>1. b = [s1 EXCEPT !.partner = q]
    BY <1>b, <1>1 DEF Typed, States
  <2>2. q \in [Conns -> ConnsOrNone]
    BY <1>0, <1>1 DEF Typed, States, ConnsOrNone
  <2> HIDE DEF q
  <2>3. Typed(b) /\ b.live = s1.live /\ b.active = s1.active /\ b.partner = q
    BY <1>1, <2>1, <2>2 DEF Typed, States
  <2> QED
    BY <1>1, <2>3 DEF q
<1>3. \A d \in Conns : b.partner[d] = IF d = c THEN other
                                     ELSE IF d = other THEN c ELSE s.partner[d]
  <2>1. s.partner \in [Conns -> ConnsOrNone]
    BY DEF Typed, States
  <2>2. b.partner = [[s.partner EXCEPT ![c] = other] EXCEPT ![other] = c]
    BY <1>1, <1>2
  <2> QED
    BY <1>0, <2>1, <2>2
<1>4. Paired(b)
  <2> SUFFICES ASSUME NEW d \in s.live, b.partner[d] # None
               PROVE  /\ b.partner[d] \in s.live /\ b.partner[d] # d
                      /\ b.partner[b.partner[d]] = d
    BY <1>2 DEF Paired
  <2>1. CASE d \in {c, other}
    BY <1>0, <1>3, <2>1
  <2>2. CASE d \notin {c, other}
    <3>1. b.partner[d] = s.partner[d]
      BY <1>0, <1>3, <2>2
    <3>2. s.partner[d] \in s.live \ {c, other, d} /\ s.partner[s.partner[d]] = d
      BY <2>2, <3>1 DEF Apart
    <3> QED
      BY <1>0, <1>3, <3>1, <3>2
  <2> QED
    BY <2>1, <2>2
<1>5. One(b)
  <2> SUFFICES ASSUME NEW d \in s.active
               PROVE  b.partner[d] # None /\ b.partner[d] \notin s.active
    BY <1>2 DEF One
  <2>1. CASE d = other
    BY <1>0, <1>3, <2>1
  <2>2. CASE d # other
    <3>1. d \in Conns /\ d # c
      BY <1>0
    <3>2. b.partner[d] = s.partner[d]
      BY <1>3, <2>2, <3>1
    <3> QED
      BY <2>2, <3>1, <3>2 DEF Apart
  <2> QED
    BY <2>1, <2>2
<1>6. Good(b)
  BY <1>2, <1>4, <1>5 DEF Good
<1> QED
  BY <1>2, <1>3, <1>6

\* Two devices that point at nothing else are made partners: the one that
\* comes has nothing to say, the one that waited hands on its cache.
LEMMA PairLemma ==
    ASSUME NEW s, Typed(s), NEW c \in s.live, NEW other \in s.live, c # other,
           c \notin s.wants, c \notin s.offers, c \notin s.answers, s.cands[c] = 0,
           c \notin s.active,
           Apart(s, c, other),
           NEW t, t = SetPartner(SetPartner(s, c, other), other, c)
    PROVE  /\ Good(t) /\ t.live = s.live
           /\ \A d \in Conns : t.partner[d] = IF d = c THEN other
                                           ELSE IF d = other THEN c ELSE s.partner[d]
<1> DEFINE b == Completed(s, c, other)
           r == SendCache(b, other)
<1>0. b = Completed(s, c, other)
  OBVIOUS
<1>3. t = Negotiate(r, other)
  BY DEF SetPartner, Completed
<1> HIDE DEF b
<1>1. /\ Good(b) /\ b.live = s.live /\ b.active = s.active
      /\ \A d \in Conns : b.partner[d] = IF d = c THEN other
                                        ELSE IF d = other THEN c ELSE s.partner[d]
  BY <1>0, CompletedLemma
<1>2. b.partner[other] # None /\ other \in b.live
  BY <1>1, NoneAssumption DEF Typed, States
<1>4. Good(r) /\ SamePairs(b, r)
  BY <1>1, <1>2, SendCacheLemma
<1> HIDE DEF r
<1>5. Good(t) /\ SamePairs(r, t)
  BY <1>2, <1>3, <1>4, NegotiateLemma DEF SamePairs
<1> QED
  BY <1>1, <1>4, <1>5 DEF SamePairs

\* What register_ finds in the slot the device takes and in the other one.
OldOf(k, t) == slot[k][SlotOf(k, t)]
OtherOf(k, t) == slot[k][1 - SlotOf(k, t)]

\* The two are partners, and another user has the other slot.
LEMMA SlotsLemma ==
    ASSUME IInv, NEW c \in Conns, c \notin live, NEW k \in Keys, NEW t \in Tokens,
           NEW old, old = OldOf(k, t), NEW other, other = OtherOf(k, t)
    PROVE  /\ old \in live \cup {None}
           /\ old # None => partner[old] = other /\ regKey[old] = k
           /\ other \in (live \ {old}) \cup {None}
           /\ other # None => /\ partner[other] = old /\ regKey[other] = k
                              /\ regToken[other] # t
           /\ c # old /\ c # other /\ c # None
           /\ live \subseteq Conns /\ active \subseteq live
<1> DEFINE mine == SlotOf(k, t)
<1>1. /\ mine \in Index /\ 1 - mine \in Index /\ mine # 1 - mine
      /\ 1 - (1 - mine) = mine
      /\ other # None => regToken[other] # t
  BY RegisteredSlot DEF OtherOf
<1>2. old = slot[k][mine] /\ other = slot[k][1 - mine]
  BY DEF OldOf, OtherOf
<1> HIDE DEF mine
<1>3. old # None /\ other # None => old # other
  BY <1>1, <1>2 DEF Index, IInv, TokensDiffer
<1>4. /\ old # None => old \in live /\ regKey[old] = k /\ partner[old] = other
      /\ other # None => other \in live /\ regKey[other] = k /\ partner[other] = old
  BY <1>1, <1>2 DEF IInv, RegistryHoldsTheLive, PartnersAreMutual
<1>5. c # None /\ live \subseteq Conns /\ active \subseteq live
  BY NoneAssumption DEF IInv, ServerTypeOK
<1> QED
  BY <1>1, <1>3, <1>4, <1>5

\* The devices when register_ is about to make the partners known to each other.
Checked(c, k, t) ==
    LET old    == OldOf(k, t)
        other  == OtherOf(k, t)
        placed == BoostAssert(NewDevice(State, c),
                      \E i \in Index : slot[k][i] = None \/ HasToken(k, i, t),
                      "register:51")
        alone  == IF old = None THEN placed ELSE Destroy(placed, old)
    IN  BoostAssert(alone, other = None \/ regToken[other] # t, "register:74")

\* The new device is there and has nothing, the old one is gone, and the other
\* one still points at it.
LEMMA CheckedLemma ==
    ASSUME IInv, NEW c \in Conns, c \notin live, NEW k \in Keys, NEW t \in Tokens,
           NEW old, old = OldOf(k, t), NEW other, other = OtherOf(k, t),
           NEW s, s = Checked(c, k, t)
    PROVE  /\ Typed(s) /\ s.live = (live \cup {c}) \ {old}
           /\ s.active = active \ {old} /\ Fresh(s, c)
           /\ s.wants = wants \ {old} /\ s.offers = offers \ {old}
           /\ s.answers = answers \ {old} /\ s.out = Quiet
           /\ \A d \in live \ {old} : s.cands[d] = cands[d]
           /\ \A d \in Conns :
                 s.partner[d] = IF d \in {c, old} THEN None ELSE partner[d]
<1> DEFINE new     == NewDevice(State, c)
           placed  == BoostAssert(new,
                          \E i \in Index : slot[k][i] = None \/ HasToken(k, i, t),
                          "register:51")
           alone   == IF old = None THEN placed ELSE Destroy(placed, old)
<1>1. /\ old \in live \cup {None} /\ c # old /\ c # None
      /\ live \subseteq Conns /\ active \subseteq live
  BY SlotsLemma
<1>2. /\ placed = new \/ placed = [new EXCEPT !.failed = @ \cup {"register:51"}]
      /\ s = alone \/ s = [alone EXCEPT !.failed = @ \cup {"register:74"}]
      /\ old = None => alone = placed
      /\ old # None => alone = Destroy(placed, old)
  BY DEF BoostAssert, Checked
<1> HIDE DEF alone, placed
<1>3. /\ Typed(new) /\ new.live = live \cup {c} /\ new.active = active /\ Fresh(new, c)
      /\ new.wants = wants /\ new.offers = offers /\ new.answers = answers
      /\ new.out = Quiet /\ \A d \in live : new.cands[d] = cands[d]
      /\ \A d \in Conns : new.partner[d] = IF d = c THEN None ELSE partner[d]
  BY <1>1, NewLemma
<1> HIDE DEF new
<1>4. /\ Typed(placed) /\ placed.live = new.live /\ placed.partner = new.partner
      /\ placed.active = new.active /\ placed.wants = new.wants
      /\ placed.offers = new.offers /\ placed.answers = new.answers
      /\ placed.cands = new.cands /\ placed.out = new.out
  <2>1. Typed(new) /\ {"register:51"} \subseteq Assertions
    BY <1>3 DEF Assertions
  <2>2. CASE placed = new
    BY <2>1, <2>2
  <2>3. CASE placed = [new EXCEPT !.failed = @ \cup {"register:51"}]
    BY <2>1, <2>3 DEF Typed, States
  <2> QED
    BY <1>2, <2>2, <2>3
<1>5. /\ Typed(alone) /\ alone.live = (live \cup {c}) \ {old}
      /\ alone.active = active \ {old} /\ Fresh(alone, c)
      /\ alone.wants = wants \ {old} /\ alone.offers = offers \ {old}
      /\ alone.answers = answers \ {old} /\ alone.out = Quiet
      /\ \A d \in live \ {old} : alone.cands[d] = cands[d]
      /\ \A d \in Conns :
            alone.partner[d] = IF d \in {c, old} THEN None ELSE partner[d]
  <2>0. Fresh(placed, c)
    BY <1>3, <1>4 DEF Fresh
  <2>1. CASE old = None
    <3>1. alone = placed /\ old \notin Conns
      BY <1>2, <2>1, NoneAssumption
    <3>2. active \subseteq Conns /\ wants \subseteq Conns /\ offers \subseteq Conns
            /\ answers \subseteq Conns
      BY <1>1 DEF IInv, ServerTypeOK
    <3> QED
      BY <1>1, <1>3, <1>4, <2>0, <3>1, <3>2
  <2>2. CASE old # None
    <3>1. old \in placed.live /\ old # c /\ alone = Destroy(placed, old)
      BY <1>1, <1>2, <1>3, <1>4, <2>2
    <3>2. /\ Typed(alone) /\ alone.live = placed.live \ {old}
          /\ alone.active = placed.active \ {old} /\ Fresh(alone, c)
          /\ alone.wants = placed.wants \ {old} /\ alone.offers = placed.offers \ {old}
          /\ alone.answers = placed.answers \ {old} /\ alone.out = placed.out
          /\ \A d \in Conns \ {old} : alone.cands[d] = placed.cands[d]
          /\ \A d \in Conns :
                alone.partner[d] = IF d = old THEN None ELSE placed.partner[d]
      BY <1>4, <2>0, <3>1, ReplaceLemma
    <3> QED
      BY <1>1, <1>3, <1>4, <3>2
  <2> QED
    BY <2>1, <2>2
<1>6. /\ Typed(s) /\ s.live = alone.live /\ s.partner = alone.partner
      /\ s.active = alone.active /\ s.wants = alone.wants /\ s.offers = alone.offers
      /\ s.answers = alone.answers /\ s.cands = alone.cands /\ s.out = alone.out
  <2>1. Typed(alone) /\ {"register:74"} \subseteq Assertions
    BY <1>5 DEF Assertions
  <2>2. CASE s = alone
    BY <2>1, <2>2
  <2>3. CASE s = [alone EXCEPT !.failed = @ \cup {"register:74"}]
    BY <2>1, <2>3 DEF Typed, States
  <2> QED
    BY <1>2, <2>2, <2>3
<1> QED
  BY <1>5, <1>6 DEF Fresh

\* Nobody else points at the device that comes, nor at its partner.
LEMMA ApartLemma ==
    ASSUME IInv, NEW c \in Conns, c \notin live, NEW k \in Keys, NEW t \in Tokens,
           NEW s, s = Checked(c, k, t)
    PROVE  Apart(s, c, OtherOf(k, t))
<1> DEFINE old   == OldOf(k, t)
           other == OtherOf(k, t)
<1>1. /\ old \in live \cup {None}
      /\ old # None => partner[old] = other
      /\ other # None => partner[other] = old
      /\ c # old /\ c # other /\ live \subseteq Conns /\ active \subseteq live
  BY SlotsLemma
<1>2. /\ s.live = (live \cup {c}) \ {old} /\ s.active = active \ {old}
      /\ \A d \in Conns : s.partner[d] = IF d \in {c, old} THEN None ELSE partner[d]
  BY CheckedLemma
<1> HIDE DEF old, other
<1>3. Good(State)
  BY StateGood
<1>4. ASSUME NEW d \in live, d \notin {old, other}, partner[d] # None
      PROVE  /\ partner[d] \in live /\ partner[d] \notin {c, old, other, d}
             /\ partner[partner[d]] = d
  <2>1. partner[d] \in live /\ partner[d] # d /\ partner[partner[d]] = d
    BY <1>3, <1>4 DEF Good, Paired, State
  <2>2. d # None
    BY <1>1, NoneAssumption
  <2> QED
    BY <1>1, <1>4, <2>1, <2>2
<1>5. ASSUME NEW d \in active, d \notin {old, other}
      PROVE  partner[d] # None /\ partner[d] \notin active
  BY <1>3 DEF Good, One, State
<1>6. ASSUME NEW d \in s.live \ {c, other}, s.partner[d] # None
      PROVE  /\ s.partner[d] \in s.live \ {c, other, d}
             /\ s.partner[s.partner[d]] = d
  <2>1. d \in live /\ d \in Conns /\ d \notin {c, old, other} /\ s.partner[d] = partner[d]
    BY <1>1, <1>2
  <2>2. /\ partner[d] \in live /\ partner[d] \notin {c, old, other, d}
        /\ partner[partner[d]] = d
    BY <1>4, <1>6, <2>1
  <2>3. partner[d] \in Conns
    BY <1>1, <2>2
  <2> QED
    BY <1>2, <2>1, <2>2, <2>3
<1>7. ASSUME NEW d \in s.active \ {other}
      PROVE  s.partner[d] # None /\ s.partner[d] \notin s.active
  <2>1. d \in active /\ d \in Conns /\ d \notin {c, old, other}
    BY <1>1, <1>2, SlotsLemma DEF IInv, ServerTypeOK
  <2> QED
    BY <1>2, <1>5, <2>1
<1> QED
  BY <1>6, <1>7 DEF Apart, other

\* registration_handler::register_ keeps the invariant, also when it replaces
\* a connection and when an assertion in it ends the process.
LEMMA RegisterStep ==
    ASSUME IInv, NEW c \in Conns, NEW k \in Keys, NEW t \in Tokens, Register(c, k, t)
    PROVE  IInv'
<1> DEFINE mine    == SlotOf(k, t)
           old     == OldOf(k, t)
           other   == OtherOf(k, t)
           checked == Checked(c, k, t)
           paired  == IF other = None THEN checked
                      ELSE SetPartner(SetPartner(checked, c, other), other, c)
<1>1. /\ conn[c] = "open" /\ c \notin live /\ Become(paired)
      /\ Aborts(paired) => UNCHANGED registry
      /\ ~Aborts(paired) =>
            /\ slot' = [slot EXCEPT ![k][mine] = c]
            /\ regKey' = [regKey EXCEPT ![c] = k]
            /\ regToken' = [regToken EXCEPT ![c] = t]
            /\ conn' = [x \in Conns |-> IF x = old THEN "closed" ELSE conn[x]]
  BY DEF Register, Checked, OldOf, OtherOf
<1>2. /\ mine \in Index /\ 1 - mine \in Index /\ mine # 1 - mine
      /\ 1 - (1 - mine) = mine
      /\ old = slot[k][mine] /\ other = slot[k][1 - mine]
  BY RegisteredSlot DEF OldOf, OtherOf
<1>3. /\ old \in live \cup {None}
      /\ old # None => partner[old] = other /\ regKey[old] = k
      /\ other \in (live \ {old}) \cup {None}
      /\ other # None => /\ partner[other] = old /\ regKey[other] = k
                         /\ regToken[other] # t
      /\ c # old /\ c # other /\ c # None
      /\ live \subseteq Conns /\ active \subseteq live
  BY <1>1, SlotsLemma
<1>4. /\ Typed(checked) /\ checked.live = (live \cup {c}) \ {old}
      /\ checked.active = active \ {old} /\ Fresh(checked, c)
      /\ \A d \in Conns :
            checked.partner[d] = IF d \in {c, old} THEN None ELSE partner[d]
  BY <1>1, CheckedLemma
<1>5. Apart(checked, c, other)
  BY <1>1, ApartLemma
<1> HIDE DEF mine, old, other, checked
<1>7. /\ Good(paired) /\ paired.live = (live \cup {c}) \ {old}
      /\ \A d \in Conns : paired.partner[d] =
            IF d = c THEN other ELSE IF d = old THEN None
            ELSE IF d = other THEN c ELSE partner[d]
  <2>1. CASE other = None
    <3>1. paired = checked /\ other \notin Conns
      BY <2>1, NoneAssumption
    <3> HIDE DEF paired
    <3>2. Paired(checked)
      <4> SUFFICES ASSUME NEW d \in checked.live, checked.partner[d] # None
                   PROVE  /\ checked.partner[d] \in checked.live
                          /\ checked.partner[d] # d
                          /\ checked.partner[checked.partner[d]] = d
        BY DEF Paired
      <4>1. d # c /\ d # other
        BY <1>3, <1>4, <3>1
      <4> QED
        BY <1>5, <4>1 DEF Apart
    <3>3. One(checked)
      BY <1>3, <1>4, <1>5, <3>1 DEF One, Apart
    <3> QED
      BY <1>3, <1>4, <3>1, <3>2, <3>3, <2>1 DEF Good
  <2>2. CASE other # None
    <3>1. paired = SetPartner(SetPartner(checked, c, other), other, c)
      BY <2>2
    <3> HIDE DEF paired
    <3>2. /\ c \in checked.live /\ other \in checked.live /\ c # other
          /\ c \notin checked.active /\ other \in Conns
      BY <1>1, <1>3, <1>4, <2>2
    <3>3. /\ Good(paired) /\ paired.live = checked.live
          /\ \A d \in Conns : paired.partner[d] = IF d = c THEN other
                 ELSE IF d = other THEN c ELSE checked.partner[d]
      BY <1>4, <1>5, <3>1, <3>2, PairLemma DEF Fresh
    <3> QED
      BY <1>3, <1>4, <3>2, <3>3, <2>2
  <2> QED
    BY <2>1, <2>2
<1> HIDE DEF paired
<1>8. CASE Aborts(paired)
  <2>1. live' = live /\ partner' = partner /\ active' = active /\ UNCHANGED registry
    BY <1>1, <1>7, <1>8, BecomeLemma DEF Good
  <2>2. ServerTypeOK'
    BY <1>1, <1>7, <2>1, BecomeLemma DEF Good, IInv, ServerTypeOK, registry
  <2> QED
    BY <2>1, <2>2, NothingMoves DEF registry
<1>9. CASE ~Aborts(paired)
  <2>1. /\ live' = (live \cup {c}) \ {old} /\ partner' = paired.partner
        /\ active' = paired.active
    BY <1>1, <1>7, <1>9, BecomeLemma DEF Good
  <2>2. \A x \in Keys, j \in Index :
            slot'[x][j] = IF x = k /\ j = mine THEN c ELSE slot[x][j]
    BY <1>1, <1>2, <1>9 DEF IInv, ServerTypeOK
  <2>3. /\ \A d \in Conns : regKey'[d] = IF d = c THEN k ELSE regKey[d]
        /\ \A d \in Conns : regToken'[d] = IF d = c THEN t ELSE regToken[d]
        /\ \A d \in Conns : conn'[d] = IF d = old THEN "closed" ELSE conn[d]
    BY <1>1, <1>9 DEF IInv, ServerTypeOK
  <2>4. \A x \in Keys, j \in Index : slot[x][j] # None =>
            /\ slot[x][j] \in live /\ slot[x][j] # c
            /\ slot[x][j] = old => x = k /\ j = mine
            /\ slot[x][j] = other => x = k /\ j = 1 - mine
    <3>1. ASSUME NEW x \in Keys, NEW j \in Index, slot[x][j] # None
          PROVE  /\ slot[x][j] \in live /\ slot[x][j] # c
                 /\ slot[x][j] = old => x = k /\ j = mine
                 /\ slot[x][j] = other => x = k /\ j = 1 - mine
      <4>1. slot[x][j] \in live /\ slot[x][j] # c
        BY <1>1, <3>1 DEF IInv, RegistryHoldsTheLive
      <4>2. PICK i \in Index : \A y \in Keys, m \in Index :
               slot[y][m] = slot[x][j] => y = regKey[slot[x][j]] /\ m = i
        BY <4>1, OneSlot
      <4> QED
        BY <1>2, <4>1, <4>2
    <3> QED
      BY <3>1
  <2>5. RegistryHoldsTheLive'
    <3>1. ASSUME NEW x \in Keys, NEW j \in Index, slot'[x][j] # None
          PROVE  slot'[x][j] \in live' /\ regKey'[slot'[x][j]] = x
      <4>1. CASE x = k /\ j = mine
        BY <1>3, <2>1, <2>2, <2>3, <4>1
      <4>2. CASE ~(x = k /\ j = mine)
        <5>1. slot'[x][j] = slot[x][j]
          BY <2>2, <4>2
        <5>2. slot[x][j] \in live /\ slot[x][j] \notin {c, old} /\ regKey[slot[x][j]] = x
          BY <2>4, <3>1, <4>2, <5>1 DEF IInv, RegistryHoldsTheLive
        <5> QED
          BY <1>3, <2>1, <2>3, <5>1, <5>2
      <4> QED
        BY <4>1, <4>2
    <3>2. ASSUME NEW d \in live'
          PROVE  /\ conn'[d] = "open" /\ regKey'[d] \in Keys
                 /\ \E j \in Index : slot'[regKey'[d]][j] = d
      <4>1. CASE d = c
        BY <1>1, <1>2, <1>3, <2>2, <2>3, <4>1
      <4>2. CASE d # c
        <5>1. d \in live /\ d # old /\ d \in Conns
          BY <1>3, <2>1, <4>2
        <5>2. conn'[d] = "open" /\ regKey'[d] = regKey[d] /\ regKey[d] \in Keys
          BY <2>3, <4>2, <5>1 DEF IInv, RegistryHoldsTheLive
        <5>3. PICK j \in Index : slot[regKey[d]][j] = d
          BY <5>1 DEF IInv, RegistryHoldsTheLive
        <5>4. ~(regKey[d] = k /\ j = mine)
          BY <1>2, <5>1, <5>3
        <5> QED
          BY <2>2, <5>2, <5>3, <5>4
      <4> QED
        BY <4>1, <4>2
    <3> QED
      BY <3>1, <3>2 DEF RegistryHoldsTheLive
  <2>6. TokensDiffer'
    <3> SUFFICES ASSUME NEW x \in Keys, slot'[x][0] # None, slot'[x][1] # None
                 PROVE  /\ slot'[x][0] # slot'[x][1]
                        /\ regToken'[slot'[x][0]] # regToken'[slot'[x][1]]
      BY DEF TokensDiffer
    <3>1. CASE x = k
      <4>1. slot'[k][mine] = c /\ slot'[k][1 - mine] = other /\ other # None
        BY <1>2, <2>2, <3>1 DEF Index
      <4>2. regToken'[c] = t /\ regToken'[other] = regToken[other] /\ regToken[other] # t
        BY <1>2, <1>3, <2>3, <4>1
      <4> QED
        BY <1>2, <1>3, <3>1, <4>1, <4>2 DEF Index
    <3>2. CASE x # k
      <4>1. slot'[x][0] = slot[x][0] /\ slot'[x][1] = slot[x][1]
        BY <2>2, <3>2 DEF Index
      <4>2. slot[x][0] \in Conns \ {c} /\ slot[x][1] \in Conns \ {c}
        BY <1>3, <2>4, <4>1 DEF Index
      <4> QED
        BY <2>3, <4>1, <4>2 DEF IInv, TokensDiffer
    <3> QED
      BY <3>1, <3>2
  <2>7. PartnersAreMutual'
    <3> SUFFICES ASSUME NEW x \in Keys, NEW j \in Index, slot'[x][j] # None
                 PROVE  partner'[slot'[x][j]] = slot'[x][1 - j]
      BY DEF PartnersAreMutual
    <3>0. 1 - j \in Index
      BY DEF Index
    <3>1. CASE x = k /\ j = mine
      BY <1>2, <1>7, <2>1, <2>2, <3>1
    <3>2. CASE x = k /\ j = 1 - mine
      <4>1. slot'[x][j] = other /\ slot'[x][1 - j] = c
        BY <1>2, <2>2, <3>2
      <4> QED
        BY <1>3, <1>7, <2>1, <4>1
    <3>3. CASE x # k
      <4>1. slot'[x][j] = slot[x][j] /\ slot'[x][1 - j] = slot[x][1 - j]
        BY <2>2, <3>0, <3>3
      <4>2. slot[x][j] \in live /\ slot[x][j] \notin {c, old, other}
        BY <2>4, <3>3, <4>1
      <4> QED
        BY <1>3, <1>7, <2>1, <4>1, <4>2 DEF IInv, PartnersAreMutual
    <3> QED
      BY <1>2, <3>1, <3>2, <3>3 DEF Index
  <2>8. OneNegotiator'
    BY <1>7, <2>1 DEF Good, One, OneNegotiator
  <2>9. ServerTypeOK'
    <3>0. /\ slot' = [slot EXCEPT ![k][mine] = c]
          /\ regKey' = [regKey EXCEPT ![c] = k]
          /\ regToken' = [regToken EXCEPT ![c] = t]
          /\ conn' = [x \in Conns |-> IF x = old THEN "closed" ELSE conn[x]]
      BY <1>1, <1>9
    <3>1. slot' \in [Keys -> [Index -> ConnsOrNone]]
      BY <1>2, <3>0 DEF IInv, ServerTypeOK, ConnsOrNone
    <3>2. conn' \in [Conns -> {"idle", "open", "closed"}]
      BY <3>0 DEF IInv, ServerTypeOK
    <3>3. /\ regKey' \in [Conns -> Keys \cup {None}]
          /\ regToken' \in [Conns -> Tokens \cup {None}]
      BY <3>0 DEF IInv, ServerTypeOK
    <3> QED
      BY <1>1, <1>7, <3>1, <3>2, <3>3, BecomeLemma DEF Good, ServerTypeOK
  <2> QED
    BY <2>5, <2>6, <2>7, <2>8, <2>9 DEF IInv
<1> QED
  BY <1>8, <1>9

-----------------------------------------------------------------------------
(* Beyond the invariant: what the methods do to the wishes, the caches and    *)
(* the messages.  A method called on one device may begin or end the          *)
(* negotiation of its pair, and in between a wish of the pair lies idle; the  *)
(* lemmas say which wishes every method leaves taken up, that it forgets none *)
(* and that what it takes out of a cache it sends.                            *)

\* A wish of d, if it has one and a partner, is being taken care of.
TakenUp(s, d) ==
    d \in s.wants /\ s.partner[d] # None => d \in s.active \/ s.partner[d] \in s.active

Says(s, d, m) == \E i \in 1..Len(s.out[d]) : s.out[d][i] = m

\* Whatever s has sent, t has sent too, in the same order.
Extends(s, t) ==
    \A d \in Conns :
        /\ Len(s.out[d]) <= Len(t.out[d])
        /\ \A i \in 1..Len(s.out[d]) : t.out[d][i] = s.out[d][i]

\* What d wants or negotiates in s it wants or negotiates in t, or it has the
\* answer.
Upholds(s, t, d) ==
    d \in s.wants \/ d \in s.active \/ Says(s, d, "answer") =>
        d \in t.wants \/ d \in t.active \/ Says(t, d, "answer")

\* What every method between two calls of a pair does.
Flow(s, t) ==
    /\ Typed(t) /\ SamePairs(s, t) /\ t.wants \subseteq s.wants
    /\ Extends(s, t)
    /\ \A d \in Conns : Upholds(s, t, d)

\* Flow is transitive.
LEMMA FlowTransitive ==
    ASSUME NEW s, NEW t, NEW u, Typed(s), Flow(s, t), Flow(t, u)
    PROVE  Flow(s, u)
<1>1. \A d \in Conns : s.out[d] \in Seq(Messages) /\ t.out[d] \in Seq(Messages)
  BY DEF Flow, Typed, States
<1>2. Extends(s, u)
  <2> SUFFICES ASSUME NEW d \in Conns
               PROVE  /\ Len(s.out[d]) <= Len(u.out[d])
                      /\ \A i \in 1..Len(s.out[d]) : u.out[d][i] = s.out[d][i]
    BY DEF Extends
  <2>1. Len(s.out[d]) \in Nat /\ Len(t.out[d]) \in Nat /\ Len(u.out[d]) \in Nat
    BY <1>1 DEF Flow, Typed, States
  <2> QED
    BY <2>1 DEF Flow, Extends
<1>3. \A d \in Conns : Upholds(s, u, d)
  BY DEF Flow, Upholds
<1> QED
  BY <1>2, <1>3 DEF Flow, SamePairs

\* What was said stays said.
LEMMA SaidStays ==
    ASSUME NEW s, NEW t, Typed(s), Typed(t), Extends(s, t), NEW d \in Conns, NEW m,
           Says(s, d, m)
    PROVE  Says(t, d, m)
<1>1. PICK i \in 1..Len(s.out[d]) : s.out[d][i] = m
  BY DEF Says
<1>2. Len(s.out[d]) \in Nat /\ Len(t.out[d]) \in Nat
  BY DEF Typed, States
<1>3. i \in 1..Len(t.out[d]) /\ t.out[d][i] = m
  BY <1>1, <1>2 DEF Extends
<1> QED
  BY <1>3 DEF Says

\* A state that differs from s in what was sent, or in the caches and the
\* assertions only, flows from it.
LEMMA FlowByExtension ==
    ASSUME NEW s, NEW t, Typed(s), Typed(t), SamePairs(s, t), t.wants = s.wants,
           t.active = s.active, Extends(s, t)
    PROVE  Flow(s, t)
BY SaidStays DEF Flow, Upholds

\* Nothing was sent.
LEMMA FlowInSilence ==
    ASSUME NEW s, NEW t, Typed(s), Typed(t), SamePairs(s, t), t.wants = s.wants,
           t.active = s.active, t.out = s.out
    PROVE  Flow(s, t)
<1>1. Extends(s, t)
  BY DEF Extends, Typed, States
<1> QED
  BY <1>1, FlowByExtension

\* Send() says m.
LEMMA SendFlow ==
    ASSUME NEW s, Typed(s), NEW d \in Conns, NEW m \in Messages
    PROVE  /\ Flow(s, Send(s, d, m))
           /\ Says(Send(s, d, m), d, m)
<1> DEFINE longer == Append(s.out[d], m)
           t == Send(s, d, m)
<1>1. s.out[d] \in Seq(Messages)
  BY DEF Typed, States
<1>2. /\ longer \in Seq(Messages) /\ Len(longer) = Len(s.out[d]) + 1
      /\ \A i \in 1..Len(s.out[d]) : longer[i] = s.out[d][i]
      /\ longer[Len(s.out[d]) + 1] = m
      /\ Len(s.out[d]) \in Nat
  BY <1>1
<1>3. /\ t.out[d] = longer
      /\ \A e \in Conns \ {d} : t.out[e] = s.out[e]
  BY DEF Send, Typed, States
<1>4. /\ Typed(t) /\ SamePairs(s, t) /\ t.active = s.active /\ t.wants = s.wants
  BY SendLemma
<1> HIDE DEF t, longer
<1>5. Extends(s, t)
  <2> SUFFICES ASSUME NEW e \in Conns
               PROVE  /\ Len(s.out[e]) <= Len(t.out[e])
                      /\ \A i \in 1..Len(s.out[e]) : t.out[e][i] = s.out[e][i]
    BY DEF Extends
  <2>1. Len(s.out[e]) \in Nat
    BY DEF Typed, States
  <2>2. CASE e = d
    BY <1>2, <1>3, <2>2
  <2>3. CASE e # d
    BY <1>3, <2>1, <2>3
  <2> QED
    BY <2>2, <2>3
<1>6. Says(t, d, m)
  BY <1>2, <1>3 DEF Says
<1> QED
  BY <1>4, <1>5, <1>6, FlowByExtension DEF t

\* SendIce() says n candidates.
LEMMA SendIceFlow ==
    ASSUME NEW s, Typed(s), NEW d \in Conns, NEW n \in Nat
    PROVE  LET t == SendIce(s, d, n) IN
           /\ Flow(s, t)
           /\ Len(t.out[d]) = Len(s.out[d]) + n
           /\ \A i \in 1..n : t.out[d][Len(s.out[d]) + i] = "ice_candidate"
           /\ \A e \in Conns \ {d} : t.out[e] = s.out[e]
<1> DEFINE ice == [i \in 1..n |-> "ice_candidate"]
           longer == s.out[d] \o ice
           t == SendIce(s, d, n)
<1>1. s.out[d] \in Seq(Messages) /\ ice \in Seq(Messages) /\ Len(ice) = n
        /\ \A i \in 1..n : ice[i] = "ice_candidate"
  BY DEF Typed, States, Messages
<1>2. /\ t.out[d] = longer
      /\ \A e \in Conns \ {d} : t.out[e] = s.out[e]
  BY DEF SendIce, Typed, States
<1>3. /\ Typed(t) /\ SamePairs(s, t) /\ t.active = s.active /\ t.wants = s.wants
  BY SendIceLemma
<1> HIDE DEF t, ice
<1>4. /\ Len(longer) = Len(s.out[d]) + n
      /\ \A i \in 1..Len(s.out[d]) : longer[i] = s.out[d][i]
      /\ \A i \in 1..n : longer[Len(s.out[d]) + i] = "ice_candidate"
      /\ Len(s.out[d]) \in Nat
  BY <1>1
<1> HIDE DEF longer
<1>5. Extends(s, t)
  <2> SUFFICES ASSUME NEW e \in Conns
               PROVE  /\ Len(s.out[e]) <= Len(t.out[e])
                      /\ \A i \in 1..Len(s.out[e]) : t.out[e][i] = s.out[e][i]
    BY DEF Extends
  <2>1. Len(s.out[e]) \in Nat
    BY DEF Typed, States
  <2>2. CASE e = d
    BY <1>2, <1>4, <2>2
  <2>3. CASE e # d
    BY <1>2, <2>1, <2>3
  <2> QED
    BY <2>2, <2>3
<1> QED
  BY <1>2, <1>3, <1>4, <1>5, FlowByExtension DEF t

\* negotiate() turns a wish into a negotiation, or finds that it must wait.
LEMMA NegotiateFlow ==
    ASSUME NEW s, Good(s), NEW d \in s.live
    PROVE  LET t == Negotiate(s, d) IN
           /\ Flow(s, t)
           /\ s.active \subseteq t.active
           /\ TakenUp(t, d)
<1> DEFINE p == Partner(s, d)
           b == [s EXCEPT !.active = @ \cup {d}, !.wants = @ \ {d}]
           t == Negotiate(s, d)
<1>0. d \in Conns /\ Typed(s) /\ Paired(s) /\ p = s.partner[d] /\ "create_offer" \in Messages
  BY PartnerLemma DEF Good, Typed, States, Messages
<1>1. CASE d \in s.wants /\ d \notin s.active /\ p # None /\ p \notin s.active
  <2>1. t = Send(b, d, "create_offer")
    BY <1>1 DEF Negotiate
  <2>2. Typed(b) /\ SamePairs(s, b) /\ b.out = s.out
          /\ b.active = s.active \cup {d} /\ b.wants = s.wants \ {d}
    BY <1>0 DEF Typed, States, SamePairs
  <2> HIDE DEF b
  <2>3. Flow(s, b)
    <3>1. Extends(s, b)
      BY <2>2, <1>0 DEF Extends, Typed, States
    <3> QED
      BY <2>2, <3>1 DEF Flow, Upholds, Says
  <2>4. Flow(b, t) /\ t.active = b.active /\ t.wants = b.wants
    BY <1>0, <2>1, <2>2, SendFlow, SendLemma
  <2> HIDE DEF t
  <2>5. Flow(s, t)
    BY <1>0, <2>3, <2>4, FlowTransitive
  <2>6. TakenUp(t, d)
    BY <2>2, <2>4 DEF TakenUp
  <2> QED
    BY <2>2, <2>4, <2>5, <2>6 DEF t
<1>2. CASE ~(d \in s.wants /\ d \notin s.active /\ p # None /\ p \notin s.active)
  <2>1. t = s
    BY <1>2 DEF Negotiate
  <2>2. Flow(s, s)
    BY <1>0, FlowInSilence DEF SamePairs
  <2>3. TakenUp(s, d)
    BY <1>0, <1>2 DEF TakenUp
  <2> QED
    BY <2>1, <2>2, <2>3
<1> QED
  BY <1>1, <1>2

\* A wish stays taken up while negotiations only begin.
LEMMA TakenUpStays ==
    ASSUME NEW s, NEW t, SamePairs(s, t), t.wants \subseteq s.wants,
           s.active \subseteq t.active, NEW d, TakenUp(s, d)
    PROVE  TakenUp(t, d)
BY DEF TakenUp, SamePairs

\* The others, neither d nor its partner, have their wishes taken up.
OthersTakenUp(s, d) == \A e \in s.live \ {d, s.partner[d]} : TakenUp(s, e)

\* send_answer() says the answer, and takes up the wishes of the pair; the ones
\* of other pairs are not touched.
LEMMA SendAnswerFlow ==
    ASSUME NEW s, Good(s), NEW d \in s.live
    PROVE  LET t == SendAnswer(s, d) IN
           /\ Flow(s, t)
           /\ Says(t, d, "answer")
           /\ OthersTakenUp(s, d) => \A e \in s.live : TakenUp(t, e)
<1> DEFINE sending  == Send(s, d, "answer")
           asserted == BoostAssert(sending, d \in s.active, "send_answer:46")
           released == [asserted EXCEPT !.active = @ \ {d}]
           ended    == Negotiate(released, d)
           p        == Partner(ended, d)
           t        == SendAnswer(s, d)
           Told(u)  == /\ Good(u) /\ Flow(s, u) /\ d \in u.live /\ Says(u, d, "answer")
                       /\ \A e \in s.active : e # d => e \in u.active
<1>0. d \in Conns /\ "answer" \in Messages /\ "send_answer:46" \in Assertions
        /\ "send_answer:52" \in Assertions /\ Typed(s) /\ Paired(s)
  BY DEF Good, Typed, States, Messages, Assertions
<1>1. Told(sending) /\ sending.active = s.active
  <2>1. Flow(s, sending) /\ Says(sending, d, "answer")
    BY <1>0, SendFlow
  <2>2. Typed(sending) /\ SamePairs(s, sending) /\ sending.active = s.active
    BY <1>0, SendLemma
  <2> HIDE DEF sending
  <2>3. Good(sending)
    BY <2>2 DEF Good, Paired, One, SamePairs
  <2> QED
    BY <2>1, <2>2, <2>3 DEF SamePairs
<1> HIDE DEF sending
<1>2. Told(asserted)
  <2>1. /\ Typed(asserted) /\ SamePairs(sending, asserted)
        /\ asserted.active = sending.active /\ asserted.wants = sending.wants
    BY <1>0, <1>1, AssertLemma DEF Good
  <2>2. asserted.out = sending.out
    BY <1>1 DEF BoostAssert, Good, Typed, States
  <2> HIDE DEF asserted
  <2>3. Good(asserted)
    BY <1>1, <2>1 DEF Good, Paired, One, SamePairs
  <2>4. Flow(sending, asserted)
    BY <1>1, <2>1, <2>2, FlowInSilence DEF Good
  <2>5. Flow(s, asserted)
    BY <1>0, <1>1, <2>4, FlowTransitive
  <2> QED
    BY <1>0, <1>1, <2>1, <2>2, <2>3, <2>5, SaidStays DEF SamePairs, Says
<1> HIDE DEF asserted
<1>3. Told(released) /\ released.active = asserted.active \ {d}
  <2>1. Good(released) /\ SamePairs(asserted, released)
    BY <1>2, EndLemma
  <2>2. /\ released.active = asserted.active \ {d} /\ released.wants = asserted.wants
        /\ released.out = asserted.out
    BY <1>2 DEF Good, Typed, States
  <2> HIDE DEF released
  <2>3. Says(released, d, "answer")
    BY <1>2, <2>2 DEF Says
  <2>4. Flow(s, released)
    <3>1. Extends(s, released)
      BY <1>2, <2>2 DEF Flow, Extends
    <3>2. \A e \in Conns : Upholds(s, released, e)
      BY <1>2, <2>2, <2>3 DEF Flow, Upholds, Says
    <3> QED
      BY <1>2, <2>1, <2>2, <3>1, <3>2 DEF Flow, Good, SamePairs
  <2> QED
    BY <1>2, <2>1, <2>2, <2>3, <2>4 DEF SamePairs
<1> HIDE DEF released
<1>4. Told(ended) /\ TakenUp(ended, d)
  <2>1. Good(ended) /\ SamePairs(released, ended)
    BY <1>3, NegotiateLemma
  <2>2. Flow(released, ended) /\ released.active \subseteq ended.active /\ TakenUp(ended, d)
    BY <1>3, NegotiateFlow
  <2> HIDE DEF ended
  <2>3. Flow(s, ended)
    BY <1>0, <1>3, <2>2, FlowTransitive
  <2>4. Says(ended, d, "answer")
    BY <1>0, <1>3, <2>1, <2>2, SaidStays DEF Good, Flow
  <2> QED
    BY <1>3, <2>1, <2>2, <2>3, <2>4 DEF SamePairs
<1> HIDE DEF ended
<1>5. p = s.partner[d] /\ (p # None => p \in ended.live) /\ ended.partner = s.partner
  BY <1>4, PartnerLemma DEF Good, Flow, SamePairs
<1>6. \A e \in s.live : s.partner[e] # None =>
          s.partner[e] \in s.live /\ s.partner[s.partner[e]] = e
  BY <1>0 DEF Paired
<1>7. ASSUME OthersTakenUp(s, d), NEW e \in s.live, e # d, e # p
      PROVE  TakenUp(ended, e)
  <2>1. TakenUp(s, e)
    BY <1>5, <1>7 DEF OthersTakenUp
  <2>2. s.partner[e] # None => s.partner[e] # d
    BY <1>5, <1>6, <1>7
  <2>3. ended.wants \subseteq s.wants /\ ended.partner = s.partner
    BY <1>4 DEF Flow, SamePairs
  <2>4. \A x \in s.active : x # d => x \in ended.active
    BY <1>4
  <2> QED
    BY <1>7, <2>1, <2>2, <2>3, <2>4 DEF TakenUp
<1>a. CASE d \in ended.active
  <2>1. t = ended
    BY <1>a DEF SendAnswer, ended, released, asserted, sending
  <2>2. p # None => TakenUp(ended, p)
    BY <1>0, <1>5, <1>6, <1>a DEF TakenUp
  <2>3. ASSUME OthersTakenUp(s, d), NEW e \in s.live PROVE TakenUp(ended, e)
    <3>1. e # None
      BY <1>0, NoneAssumption DEF Typed, States
    <3> QED
      BY <1>4, <1>7, <2>2, <2>3, <3>1
  <2> QED
    BY <1>4, <2>1, <2>3
<1>b. CASE d \notin ended.active /\ p = None
  <2> DEFINE u == BoostAssert(ended, FALSE, "send_answer:52")
  <2>1. t = u
    BY <1>b DEF SendAnswer, ended, released, asserted, sending
  <2>2. Typed(ended)
    BY <1>4 DEF Good
  <2>3. Typed(u) /\ SamePairs(ended, u) /\ u.active = ended.active
          /\ u.wants = ended.wants /\ u.out = ended.out
    BY <1>0, <2>2 DEF BoostAssert, Typed, States, SamePairs
  <2> HIDE DEF u
  <2>4. Flow(s, u)
    BY <1>0, <1>4, <2>2, <2>3, FlowInSilence, FlowTransitive
  <2>5. Says(u, d, "answer")
    BY <1>4, <2>3 DEF Says
  <2>6. ASSUME OthersTakenUp(s, d), NEW e \in s.live PROVE TakenUp(u, e)
    <3>1. TakenUp(ended, e)
      BY <1>0, <1>4, <1>7, <1>b, <2>6, NoneAssumption DEF Typed, States
    <3> QED
      BY <2>3, <3>1, TakenUpStays DEF SamePairs
  <2> HIDE DEF t
  <2> QED
    BY <2>1, <2>4, <2>5, <2>6 DEF t
<1>c. CASE d \notin ended.active /\ p # None
  <2>1. t = Negotiate(ended, p)
    BY <1>c DEF SendAnswer, ended, released, asserted, sending
  <2>2. Flow(ended, t) /\ ended.active \subseteq t.active /\ TakenUp(t, p)
    BY <1>4, <1>5, <1>c, <2>1, NegotiateFlow
  <2> HIDE DEF t
  <2>3. Flow(s, t)
    BY <1>0, <1>4, <2>2, FlowTransitive
  <2>4. Says(t, d, "answer")
    BY <1>0, <1>4, <2>2, SaidStays DEF Good, Flow
  <2>5. ASSUME OthersTakenUp(s, d), NEW e \in s.live PROVE TakenUp(t, e)
    <3>1. e = p \/ TakenUp(ended, e)
      BY <1>4, <1>7, <2>5
    <3> QED
      BY <2>2, <3>1, TakenUpStays DEF Flow
  <2> QED
    BY <2>3, <2>4, <2>5 DEF t
<1> QED
  BY <1>a, <1>b, <1>c

\* n candidates were said to p behind the first k messages.
IcedFrom(s, p, k, n) ==
    \A i \in 1..n : k + i <= Len(s.out[p]) /\ s.out[p][k + i] = "ice_candidate"

\* send_cache() hands on everything d cached, the candidates first, and lets no
\* wish of another pair down.
LEMMA SendCacheFlow ==
    ASSUME NEW s, Good(s), NEW d \in s.live, s.partner[d] # None
    PROVE  LET t == SendCache(s, d)
               p == s.partner[d] IN
           /\ Flow(s, t)
           /\ t.offers = s.offers \ {d} /\ t.answers = s.answers \ {d}
           /\ \A e \in Conns : t.cands[e] = IF e = d THEN 0 ELSE s.cands[e]
           /\ d \in s.offers => Says(t, p, "offer")
           /\ d \in s.answers => Says(t, p, "answer")
           /\ IcedFrom(t, p, Len(s.out[p]), s.cands[d])
           /\ OthersTakenUp(s, d) => OthersTakenUp(t, d)
<1> DEFINE p      == Partner(s, d)
           k      == Len(s.out[p])
           n      == s.cands[d]
           iced   == SendIce(s, p, n)
           ice    == [iced EXCEPT !.cands[d] = 0]
           offer  == IF d \in ice.offers THEN Send(ice, p, "offer") ELSE ice
           answer == IF d \in offer.answers THEN SendAnswer(offer, p) ELSE offer
           t      == [answer EXCEPT !.offers = @ \ {d}, !.answers = @ \ {d}]
           Handed(u) == Good(u) /\ Flow(s, u) /\ IcedFrom(u, p, k, n)
<1>a. Typed(s) /\ Paired(s) /\ p = s.partner[d]
  BY PartnerLemma DEF Good
<1>b. p \in s.live /\ p # None
  BY <1>a, PartnerLemma DEF Typed, States
<1>0. /\ p \in Conns /\ d \in Conns /\ n \in 0..MaxCandidates /\ n \in Nat /\ k \in Nat
      /\ s.partner[p] = d /\ "offer" \in Messages
  BY <1>a, <1>b, BoundAssumption DEF Typed, States, Paired, Messages
<1> HIDE DEF p, k, n
<1>1. /\ Handed(iced) /\ iced.wants = s.wants /\ iced.active = s.active
      /\ iced.offers = s.offers /\ iced.answers = s.answers /\ iced.cands = s.cands
  <2>1. /\ Flow(s, iced) /\ Len(iced.out[p]) = k + n
        /\ \A i \in 1..n : iced.out[p][k + i] = "ice_candidate"
    BY <1>a, <1>0, SendIceFlow DEF k
  <2>2. /\ Typed(iced) /\ SamePairs(s, iced) /\ iced.active = s.active /\ iced.wants = s.wants
        /\ iced.offers = s.offers /\ iced.answers = s.answers /\ iced.cands = s.cands
    BY <1>a, <1>0, SendIceLemma
  <2> HIDE DEF iced
  <2>3. Good(iced)
    BY <2>2 DEF Good, Paired, One, SamePairs
  <2>4. IcedFrom(iced, p, k, n)
    BY <1>0, <2>1 DEF IcedFrom
  <2> QED
    BY <2>1, <2>2, <2>3, <2>4
<1> HIDE DEF iced
<1>2. /\ Handed(ice) /\ ice.wants = s.wants /\ ice.active = s.active
      /\ ice.offers = s.offers /\ ice.answers = s.answers
      /\ \A e \in Conns : ice.cands[e] = IF e = d THEN 0 ELSE s.cands[e]
  <2>1. Typed(iced)
    BY <1>1 DEF Good
  <2> DEFINE emptied == [iced.cands EXCEPT ![d] = 0]
  <2>2. /\ emptied \in [Conns -> 0..MaxCandidates]
        /\ \A e \in Conns : emptied[e] = IF e = d THEN 0 ELSE s.cands[e]
    <3>1. iced.cands = s.cands /\ s.cands \in [Conns -> 0..MaxCandidates]
      BY <1>1, <1>a DEF Typed, States
    <3>2. emptied = [s.cands EXCEPT ![d] = 0] /\ 0 \in 0..MaxCandidates
      BY <3>1, BoundAssumption
    <3> HIDE DEF emptied
    <3> QED
      BY <3>1, <3>2
  <2>3. ice = [iced EXCEPT !.cands = emptied]
    BY <2>1 DEF Typed, States
  <2> HIDE DEF ice, emptied
  <2>4. /\ Typed(ice) /\ SamePairs(iced, ice) /\ ice.active = iced.active
        /\ ice.wants = iced.wants /\ ice.offers = iced.offers
        /\ ice.answers = iced.answers /\ ice.cands = emptied /\ ice.out = iced.out
    BY <2>1, <2>2, <2>3 DEF Typed, States, SamePairs
  <2>5. Good(ice)
    BY <1>1, <2>4 DEF Good, Paired, One, SamePairs
  <2>6. Flow(s, ice)
    BY <1>1, <1>a, <2>1, <2>4, FlowInSilence, FlowTransitive
  <2> QED
    BY <1>1, <2>2, <2>4, <2>5, <2>6 DEF IcedFrom
<1> HIDE DEF ice
<1>s. ASSUME NEW u, NEW v, Handed(u), Good(v), Flow(u, v) PROVE Handed(v)
  <2>1. Flow(s, v)
    BY <1>a, <1>s, FlowTransitive
  <2>2. Len(u.out[p]) \in Nat /\ Len(v.out[p]) \in Nat /\ Len(u.out[p]) <= Len(v.out[p])
    BY <1>0, <1>s DEF Good, Typed, States, Flow, Extends
  <2>3. IcedFrom(v, p, k, n)
    <3> SUFFICES ASSUME NEW i \in 1..n
                 PROVE  k + i <= Len(v.out[p]) /\ v.out[p][k + i] = "ice_candidate"
      BY DEF IcedFrom
    <3>1. k + i <= Len(u.out[p]) /\ u.out[p][k + i] = "ice_candidate"
      BY <1>s DEF IcedFrom
    <3>2. k + i \in 1..Len(u.out[p])
      BY <1>0, <2>2, <3>1
    <3>3. v.out[p][k + i] = u.out[p][k + i]
      BY <1>0, <1>s, <3>2 DEF Flow, Extends
    <3> QED
      BY <1>0, <2>2, <3>1, <3>3
  <2> QED
    BY <1>s, <2>1, <2>3
<1>3. /\ Handed(offer) /\ offer.active = s.active /\ offer.wants = s.wants
      /\ offer.offers = s.offers /\ offer.answers = s.answers /\ offer.cands = ice.cands
      /\ d \in s.offers => Says(offer, p, "offer")
  <2> DEFINE o == Send(ice, p, "offer")
  <2>1. /\ Typed(o) /\ SamePairs(ice, o) /\ o.active = ice.active /\ o.wants = ice.wants
        /\ o.offers = ice.offers /\ o.answers = ice.answers /\ o.cands = ice.cands
    BY <1>0, <1>2, SendLemma DEF Good
  <2>2. Flow(ice, o) /\ Says(o, p, "offer")
    BY <1>0, <1>2, SendFlow DEF Good
  <2> HIDE DEF o
  <2>3. Good(o)
    BY <1>2, <2>1 DEF Good, Paired, One, SamePairs
  <2>4. Handed(o)
    BY <1>2, <1>s, <2>2, <2>3
  <2>5. offer = IF d \in s.offers THEN o ELSE ice
    BY <1>2 DEF o
  <2> HIDE DEF offer
  <2> QED
    BY <1>2, <2>1, <2>2, <2>4, <2>5
<1> HIDE DEF offer
<1>4. /\ Handed(answer) /\ answer.offers = s.offers /\ answer.answers = s.answers
      /\ answer.cands = ice.cands
      /\ d \in s.offers => Says(answer, p, "offer")
      /\ d \in s.answers => Says(answer, p, "answer")
      /\ OthersTakenUp(s, d) => OthersTakenUp(answer, d)
  <2> DEFINE a == SendAnswer(offer, p)
  <2>0. p \in offer.live /\ offer.partner = s.partner /\ offer.live = s.live
    BY <1>3, <1>b DEF Flow, SamePairs
  <2>1. /\ Good(a) /\ SamePairs(offer, a) /\ a.offers = offer.offers
        /\ a.answers = offer.answers /\ a.cands = offer.cands
    BY <1>3, <2>0, SendAnswerLemma
  <2>2. /\ Flow(offer, a) /\ Says(a, p, "answer")
        /\ OthersTakenUp(offer, p) => \A e \in offer.live : TakenUp(a, e)
    BY <1>3, <2>0, SendAnswerFlow
  <2> HIDE DEF a
  <2>3. Handed(a)
    BY <1>3, <1>s, <2>1, <2>2
  <2>4. OthersTakenUp(s, d) => OthersTakenUp(offer, d) /\ OthersTakenUp(offer, p)
    BY <1>0, <1>3, <1>a, <2>0 DEF OthersTakenUp, TakenUp
  <2>5. OthersTakenUp(s, d) => OthersTakenUp(a, d)
    BY <2>0, <2>1, <2>2, <2>4 DEF OthersTakenUp, SamePairs
  <2>6. d \in s.offers => Says(a, p, "offer")
    BY <1>0, <1>3, <2>1, <2>2, SaidStays DEF Good, Flow
  <2>7. answer = IF d \in s.answers THEN a ELSE offer
    BY <1>3 DEF a
  <2> HIDE DEF answer
  <2> QED
    BY <1>3, <2>1, <2>2, <2>3, <2>4, <2>5, <2>6, <2>7
<1> HIDE DEF answer
<1>5. SendCache(s, d) = t
  BY DEF SendCache, t, answer, offer, ice, iced, p, n
<1>6. /\ Typed(t) /\ SamePairs(answer, t) /\ t.active = answer.active
      /\ t.wants = answer.wants /\ t.out = answer.out /\ t.cands = answer.cands
      /\ t.offers = answer.offers \ {d} /\ t.answers = answer.answers \ {d}
  BY <1>4 DEF Good, Typed, States, SamePairs
<1> HIDE DEF t
<1>7. Flow(s, t)
  BY <1>4, <1>6, <1>a, FlowInSilence, FlowTransitive DEF Good
<1>8. IcedFrom(t, p, k, n)
  BY <1>4, <1>6 DEF IcedFrom
<1>9. /\ OthersTakenUp(s, d) => OthersTakenUp(t, d)
      /\ d \in s.offers => Says(t, p, "offer")
      /\ d \in s.answers => Says(t, p, "answer")
  BY <1>4, <1>6 DEF OthersTakenUp, TakenUp, SamePairs, Says
<1>10. /\ t.offers = s.offers \ {d} /\ t.answers = s.answers \ {d}
       /\ \A e \in Conns : t.cands[e] = IF e = d THEN 0 ELSE s.cands[e]
  BY <1>2, <1>4, <1>6
<1> QED
  BY <1>5, <1>7, <1>8, <1>9, <1>10, <1>a DEF k, n

\* t has the wishes, the negotiations and the caches of s, and has sent no less.
Carries(s, t) ==
    /\ t.wants = s.wants /\ t.active = s.active
    /\ t.offers = s.offers /\ t.answers = s.answers
    /\ \A e \in Conns : t.cands[e] = s.cands[e]

\* set_partner() of a device that has nothing to say says nothing to anybody.
LEMMA SilentSetPartnerFlow ==
    ASSUME NEW s, Typed(s), NEW d \in s.live, NEW p \in s.live,
           d \notin s.wants, d \notin s.offers, d \notin s.answers, s.cands[d] = 0,
           NEW t, t = SetPartner(s, d, p)
    PROVE  /\ Carries(s, t) /\ Extends(s, t)
           /\ \A e \in Conns \ {p} : t.out[e] = s.out[e]
<1> DEFINE b    == [s EXCEPT !.partner[d] = p]
           iced == SendIce(b, p, 0)
           ice  == [iced EXCEPT !.cands[d] = 0]
           r    == [ice EXCEPT !.offers = @ \ {d}, !.answers = @ \ {d}]
<1>0. p \in Conns /\ d \in Conns /\ p # None
  BY NoneAssumption DEF Typed, States
<1>1. /\ Typed(b) /\ b.live = s.live /\ b.partner[d] = p /\ b.active = s.active
      /\ b.wants = s.wants /\ b.offers = s.offers /\ b.answers = s.answers
      /\ b.cands = s.cands /\ b.out = s.out
  BY <1>0 DEF Typed, States, ConnsOrNone
<1>2. Partner(b, d) = p
  BY <1>1 DEF Partner
<1> HIDE DEF b
<1>3. /\ Typed(iced) /\ iced.active = b.active /\ iced.wants = b.wants
      /\ iced.offers = b.offers /\ iced.answers = b.answers /\ iced.cands = b.cands
  BY <1>0, <1>1, SendIceLemma
<1>4. /\ Extends(b, iced)
      /\ \A e \in Conns \ {p} : iced.out[e] = b.out[e]
  BY <1>0, <1>1, SendIceFlow DEF Flow
<1> HIDE DEF iced
<1>5. /\ Typed(ice) /\ ice.active = iced.active /\ ice.wants = iced.wants
      /\ ice.offers = iced.offers /\ ice.answers = iced.answers /\ ice.out = iced.out
      /\ \A e \in Conns : ice.cands[e] = IF e = d THEN 0 ELSE iced.cands[e]
  BY <1>0, <1>3, BoundAssumption DEF Typed, States
<1> HIDE DEF ice
<1>6. /\ r.active = ice.active /\ r.wants = ice.wants /\ r.out = ice.out
      /\ r.cands = ice.cands /\ r.offers = ice.offers \ {d} /\ r.answers = ice.answers \ {d}
      /\ r.live = ice.live
  BY <1>5 DEF Typed, States
<1>7. SendCache(b, d) = r
  BY <1>1, <1>2, <1>3, <1>5 DEF SendCache, ice, iced
<1> HIDE DEF r
<1>8. t = r
  BY <1>1, <1>3, <1>5, <1>6, <1>7 DEF SetPartner, Negotiate, b
<1>9. Carries(s, t)
  BY <1>1, <1>3, <1>5, <1>6, <1>8, ZenonT(30) DEF Carries
<1> QED
  BY <1>1, <1>4, <1>5, <1>6, <1>8, <1>9 DEF Extends

\* Before c hears of other, nothing was said to c; then it hears what other
\* cached, and what both wished for before is taken up.
LEMMA PairFlow ==
    ASSUME NEW s, Typed(s), NEW c \in s.live, NEW other \in s.live, c # other,
           c \notin s.wants, c \notin s.offers, c \notin s.answers, s.cands[c] = 0,
           c \notin s.active,
           Apart(s, c, other),
           NEW t, t = SetPartner(SetPartner(s, c, other), other, c),
           \A e \in s.live \ {c, other} : TakenUp(s, e)
    PROVE  /\ \A e \in s.live : TakenUp(t, e)
           /\ \A e \in Conns : Upholds(s, t, e)
           /\ t.offers = s.offers \ {other} /\ t.answers = s.answers \ {other}
           /\ \A e \in Conns : t.cands[e] = IF e = other THEN 0 ELSE s.cands[e]
           /\ other \in s.offers => Says(t, c, "offer")
           /\ other \in s.answers => Says(t, c, "answer")
           /\ IcedFrom(t, c, Len(s.out[c]), s.cands[other])
<1> DEFINE s1 == SetPartner(s, c, other)
           b  == Completed(s, c, other)
           r  == SendCache(b, other)
<1>0. c \in Conns /\ other \in Conns /\ s.live \subseteq Conns
  BY DEF Typed, States
<1>1. Typed(s1) /\ s1.live = s.live
  BY SilentSetPartner
<1>2. /\ Carries(s, s1) /\ Extends(s, s1)
      /\ \A e \in Conns \ {other} : s1.out[e] = s.out[e]
  BY SilentSetPartnerFlow
<1>3. /\ Good(b) /\ b.live = s.live /\ b.active = s.active
      /\ \A d \in Conns : b.partner[d] = IF d = c THEN other
                                        ELSE IF d = other THEN c ELSE s.partner[d]
  <2>1. b = Completed(s, c, other)
    OBVIOUS
  <2> HIDE DEF b
  <2> QED
    BY <2>1, CompletedLemma
<1>4. t = Negotiate(r, other)
  BY DEF SetPartner, Completed
<1>5. Carries(s1, b) /\ b.out = s1.out
  <2>1. s1 \in States
    BY <1>1 DEF Typed
  <2> HIDE DEF s1
  <2>2. b = [s1 EXCEPT !.partner[other] = c]
    BY DEF Completed, s1
  <2> QED
    BY <2>1, <2>2 DEF Carries, States
<1> HIDE DEF s1, b
<1>6. Carries(s, b) /\ Extends(s, b) /\ b.out[c] = s.out[c]
  BY <1>0, <1>2, <1>5 DEF Carries, Extends
<1>7. b.partner[other] = c /\ b.partner[other] # None /\ other \in b.live
  BY <1>0, <1>3, NoneAssumption
<1>8. OthersTakenUp(b, other)
  <2> SUFFICES ASSUME NEW e \in s.live \ {other, c} PROVE TakenUp(b, e)
    BY <1>3, <1>7 DEF OthersTakenUp
  <2>1. TakenUp(s, e) /\ b.partner[e] = s.partner[e]
    BY <1>0, <1>3
  <2> QED
    BY <1>6, <2>1 DEF TakenUp, Carries
<1>9. Good(r) /\ SamePairs(b, r)
  BY <1>3, <1>7, SendCacheLemma
<1>10. /\ Flow(b, r) /\ r.offers = b.offers \ {other} /\ r.answers = b.answers \ {other}
       /\ \A e \in Conns : r.cands[e] = IF e = other THEN 0 ELSE b.cands[e]
       /\ other \in b.offers => Says(r, c, "offer")
       /\ other \in b.answers => Says(r, c, "answer")
       /\ IcedFrom(r, c, Len(b.out[c]), b.cands[other])
       /\ OthersTakenUp(b, other) => OthersTakenUp(r, other)
  BY <1>3, <1>7, SendCacheFlow
<1> HIDE DEF r
<1>11. /\ Good(t) /\ SamePairs(r, t) /\ t.offers = r.offers /\ t.answers = r.answers
       /\ t.cands = r.cands
  BY <1>3, <1>4, <1>9, <1>7, NegotiateLemma DEF SamePairs
<1>12. Flow(r, t) /\ r.active \subseteq t.active /\ TakenUp(t, other)
  BY <1>3, <1>4, <1>9, <1>7, NegotiateFlow DEF SamePairs
<1>13. ASSUME NEW e \in s.live PROVE TakenUp(t, e)
  <2>1. CASE e = other
    BY <1>12, <2>1
  <2>2. CASE e = c
    <3>1. c \notin t.wants
      BY <1>6, <1>10, <1>12 DEF Flow, Carries
    <3> QED
      BY <2>2, <3>1 DEF TakenUp
  <2>3. CASE e \notin {c, other}
    <3>1. TakenUp(r, e)
      BY <1>3, <1>7, <1>8, <1>9, <1>10, <2>3 DEF OthersTakenUp, SamePairs
    <3> QED
      BY <1>12, <3>1, TakenUpStays DEF Flow
  <2> QED
    BY <2>1, <2>2, <2>3
<1>14. ASSUME NEW e \in Conns PROVE Upholds(s, t, e)
  <2>1. Says(s, e, "answer") => Says(b, e, "answer")
    BY <1>3, <1>6, SaidStays DEF Good
  <2>2. Upholds(s, b, e)
    BY <1>6, <2>1 DEF Upholds, Carries
  <2> QED
    BY <1>10, <1>12, <2>2 DEF Flow, Upholds
<1>15. \A m \in Messages : Says(r, c, m) => Says(t, c, m)
  BY <1>0, <1>9, <1>11, <1>12, SaidStays DEF Good, Flow
<1>16. IcedFrom(t, c, Len(s.out[c]), s.cands[other])
  <2>1. IcedFrom(r, c, Len(s.out[c]), s.cands[other])
    BY <1>0, <1>6, <1>10 DEF Carries
  <2>2. /\ Len(s.out[c]) \in Nat /\ Len(r.out[c]) \in Nat /\ Len(t.out[c]) \in Nat
        /\ s.cands[other] \in Nat
    BY <1>0, <1>9, <1>11, BoundAssumption DEF Good, Typed, States
  <2> SUFFICES ASSUME NEW i \in 1..s.cands[other]
               PROVE  /\ Len(s.out[c]) + i <= Len(t.out[c])
                      /\ t.out[c][Len(s.out[c]) + i] = "ice_candidate"
    BY DEF IcedFrom
  <2>3. /\ Len(s.out[c]) + i <= Len(r.out[c])
        /\ r.out[c][Len(s.out[c]) + i] = "ice_candidate"
    BY <2>1 DEF IcedFrom
  <2>4. Len(s.out[c]) + i \in 1..Len(r.out[c])
    BY <2>2, <2>3
  <2> QED
    BY <1>0, <1>12, <2>2, <2>3, <2>4, SMTT(30) DEF Flow, Extends
<1>17. \A e \in Conns : t.cands[e] = IF e = other THEN 0 ELSE s.cands[e]
  BY <1>6, <1>10, <1>11 DEF Carries
<1>18. /\ other \in s.offers => Says(t, c, "offer")
       /\ other \in s.answers => Says(t, c, "answer")
  BY <1>6, <1>10, <1>15 DEF Carries, Messages
<1>19. t.offers = s.offers \ {other} /\ t.answers = s.answers \ {other}
  BY <1>6, <1>10, <1>11 DEF Carries
<1> QED
  BY <1>13, <1>14, <1>16, <1>17, <1>18, <1>19

-----------------------------------------------------------------------------
(* What a handler does, beyond the invariant                                *)

\* The action formulas of NegotiationSurvives and CachedIsDelivered.
WishesSurvive ==
    \A d \in live \cap live' :
        d \in wants \cup active => d \in wants' \cup active' \/ Answered(d)

CacheArrives ==
    \A d \in live \cap live' :
        LET m == out'[partner'[d]]
            Count(x) == {i \in DOMAIN m : m[i] = x}
        IN /\ d \in offers /\ d \notin offers' => Count("offer") # {}
           /\ d \in answers /\ d \notin answers' => Count("answer") # {}
           /\ cands'[d] < cands[d] =>
                \A i \in 1..cands[d] : m[i] = "ice_candidate"

Smooth == NothingLiesIdle' /\ WishesSurvive /\ CacheArrives

\* What s tells of a handler that ends in it.
Idleless(s) ==
    \A d \in s.live :
        /\ TakenUp(s, d)
        /\ s.partner[d] # None => d \notin s.offers /\ d \notin s.answers /\ s.cands[d] = 0

Delivers(s) ==
    \A d \in live \cap s.live :
        LET p == s.partner[d] IN
        /\ Upholds(State, s, d)
        /\ d \in offers /\ d \notin s.offers => p \in Conns /\ Says(s, p, "offer")
        /\ d \in answers /\ d \notin s.answers => p \in Conns /\ Says(s, p, "answer")
        /\ s.cands[d] < cands[d] => IcedFrom(s, p, 0, cands[d])

\* Between two handlers nothing lies idle.
LEMMA StateIdleless == ASSUME NothingLiesIdle PROVE Idleless(State)
BY DEF NothingLiesIdle, NoWishIdle, CachesOnlyAlone, Idleless, TakenUp, State

\* A step that changes no device is smooth.
LEMMA StillStep ==
    ASSUME IInv, NothingLiesIdle, UNCHANGED devices
    PROVE  Smooth
<1>1. NothingLiesIdle'
  BY DEF NothingLiesIdle, NoWishIdle, CachesOnlyAlone, devices
<1>2. \A d \in live : cands[d] \in Nat
  BY BoundAssumption DEF IInv, ServerTypeOK
<1> QED
  BY <1>1, <1>2 DEF Smooth, WishesSurvive, CacheArrives, devices

\* A handler that ends in a state in which nothing is idle, and on the way
\* there delivers, is smooth, also when an assertion ends the process.
LEMMA SmoothStep ==
    ASSUME IInv, NothingLiesIdle, NEW s, Typed(s), Idleless(s), Delivers(s), Become(s)
    PROVE  Smooth
<1>1. CASE Aborts(s)
  BY <1>1, StillStep DEF Become, State, devices
<1>2. CASE ~Aborts(s)
  <2>1. /\ live' = s.live /\ partner' = s.partner /\ wants' = s.wants /\ active' = s.active
        /\ offers' = s.offers /\ answers' = s.answers /\ cands' = s.cands /\ out' = s.out
    BY <1>2 DEF Become
  <2>2. NothingLiesIdle'
    <3>1. \A d \in s.wants : TakenUp(s, d)
      BY DEF Typed, Idleless
    <3> QED
      BY <2>1, <3>1 DEF NothingLiesIdle, NoWishIdle, CachesOnlyAlone, Idleless, TakenUp
  <2>3. \A e \in Conns : DOMAIN s.out[e] = 1..Len(s.out[e])
    BY DEF Typed, States
  <2>4. WishesSurvive
    <3> SUFFICES ASSUME NEW d \in live \cap live', d \in wants \cup active
                 PROVE  d \in wants' \cup active' \/ Answered(d)
      BY DEF WishesSurvive
    <3>1. d \in s.wants \/ d \in s.active \/ Says(s, d, "answer")
      BY <2>1 DEF Delivers, Upholds, State
    <3>2. d \in Conns
      BY DEF IInv, ServerTypeOK
    <3> QED
      BY <2>1, <2>3, <3>1, <3>2 DEF Says, Answered
  <2>5. CacheArrives
    <3> SUFFICES ASSUME NEW d \in live \cap live'
                 PROVE  LET m == out'[partner'[d]]
                            Count(x) == {i \in DOMAIN m : m[i] = x}
                        IN /\ d \in offers /\ d \notin offers' => Count("offer") # {}
                           /\ d \in answers /\ d \notin answers' => Count("answer") # {}
                           /\ cands'[d] < cands[d] =>
                                \A i \in 1..cands[d] : m[i] = "ice_candidate"
      BY DEF CacheArrives
    <3> DEFINE p == s.partner[d]
               m == s.out[p]
    <3>1. /\ d \in offers /\ d \notin s.offers => p \in Conns /\ Says(s, p, "offer")
          /\ d \in answers /\ d \notin s.answers => p \in Conns /\ Says(s, p, "answer")
          /\ s.cands[d] < cands[d] => IcedFrom(s, p, 0, cands[d])
      BY <2>1 DEF Delivers
    <3>2. \A x : p \in Conns /\ Says(s, p, x) => {i \in DOMAIN m : m[i] = x} # {}
      BY <2>3 DEF Says
    <3>3. IcedFrom(s, p, 0, cands[d]) => \A i \in 1..cands[d] : m[i] = "ice_candidate"
      BY DEF IcedFrom
    <3>4. out'[partner'[d]] = m
      BY <2>1
    <3> HIDE DEF p, m
    <3> QED
      BY <2>1, <3>1, <3>2, <3>3, <3>4
  <2> QED
    BY <2>2, <2>4, <2>5 DEF Smooth
<1> QED
  BY <1>1, <1>2

\* A handler that leaves the pairs alone, and of the caches those of paired
\* devices, delivers when it flows.
LEMMA FlowDelivers ==
    ASSUME IInv, NothingLiesIdle, NEW s, Typed(s), SamePairs(State, s),
           \A d \in live : TakenUp(s, d) /\ Upholds(State, s, d),
           offers \subseteq s.offers, answers \subseteq s.answers,
           \A d \in live : cands[d] <= s.cands[d],
           \A d \in live : partner[d] # None =>
               d \notin s.offers /\ d \notin s.answers /\ s.cands[d] = 0,
           Become(s)
    PROVE  Smooth
<1>1. s.live = live /\ s.partner = partner
  BY DEF SamePairs, State
<1>2. Idleless(s)
  BY <1>1 DEF Idleless
<1>3. \A d \in live : cands[d] \in Nat /\ s.cands[d] \in Nat
  <2>1. live \subseteq Conns /\ cands \in [Conns -> 0..MaxCandidates]
          /\ s.cands \in [Conns -> 0..MaxCandidates]
    BY DEF IInv, ServerTypeOK, Typed, States
  <2>2. 0..MaxCandidates \subseteq Nat
    BY BoundAssumption
  <2> QED
    BY <2>1, <2>2
<1>4. Delivers(s)
  BY <1>1, <1>3 DEF Delivers
<1> QED
  BY <1>2, <1>4, SmoothStep

\* What a flow from the state between two handlers upholds and keeps empty.
LEMMA StateFacts ==
    ASSUME IInv, NothingLiesIdle
    PROVE  /\ Good(State) /\ Typed(State) /\ live \subseteq Conns
           /\ State.live = live /\ State.partner = partner /\ State.wants = wants
           /\ State.active = active /\ State.offers = offers
           /\ State.answers = answers /\ State.cands = cands /\ State.out = Quiet
           /\ \A d \in live : cands[d] \in Nat /\ cands[d] <= cands[d]
           /\ \A d \in live : TakenUp(State, d)
           /\ \A d \in live : partner[d] # None =>
                 d \notin offers /\ d \notin answers /\ cands[d] = 0
<1>1. \A d \in live : cands[d] \in Nat
  BY BoundAssumption DEF IInv, ServerTypeOK
<1>2. Good(State) /\ Typed(State)
  BY StateGood DEF Good
<1>3. /\ State.live = live /\ State.partner = partner /\ State.wants = wants
      /\ State.active = active /\ State.offers = offers
      /\ State.answers = answers /\ State.cands = cands /\ State.out = Quiet
  BY DEF State
<1>4. live \subseteq Conns
  BY DEF IInv, ServerTypeOK
<1>5. /\ \A d \in live : TakenUp(State, d)
      /\ \A d \in live : partner[d] # None =>
            d \notin offers /\ d \notin answers /\ cands[d] = 0
  BY <1>3, StateIdleless DEF Idleless
<1> QED
  BY <1>1, <1>2, <1>3, <1>4, <1>5

\* A new wish is taken up, or a negotiation is running.
LEMMA WantSmooth ==
    ASSUME IInv, NothingLiesIdle, NEW c \in Conns, OnWantToNegotiate(c)
    PROVE  Smooth
<1> DEFINE b == [State EXCEPT !.wants = @ \cup {c}]
           t == Negotiate(b, c)
<1>0. Good(State) /\ Typed(State) /\ c \in live /\ Become(t)
  BY StateGood DEF OnWantToNegotiate, Handles, Good
<1>1. /\ Typed(b) /\ SamePairs(State, b) /\ b.active = State.active
      /\ b.wants = State.wants \cup {c} /\ b.offers = State.offers
      /\ b.answers = State.answers /\ b.cands = State.cands /\ b.out = State.out
      /\ c \in b.live
  BY <1>0 DEF Typed, States, State, SamePairs
<1> HIDE DEF b
<1>2. Good(b)
  BY <1>0, <1>1 DEF Good, Paired, One, SamePairs
<1>3. /\ Good(t) /\ SamePairs(b, t) /\ t.offers = b.offers /\ t.answers = b.answers
      /\ t.cands = b.cands
  BY <1>1, <1>2, NegotiateLemma
<1>4. Flow(b, t) /\ b.active \subseteq t.active /\ TakenUp(t, c)
  BY <1>1, <1>2, NegotiateFlow
<1> HIDE DEF t
<1>5. ASSUME NEW d \in live PROVE TakenUp(t, d) /\ Upholds(State, t, d)
  <2>1. d \in Conns /\ TakenUp(State, d)
    BY StateFacts
  <2>2. Upholds(State, b, d)
    BY <1>1 DEF Upholds, Says
  <2>3. Upholds(State, t, d)
    BY <1>4, <2>1, <2>2 DEF Flow, Upholds
  <2>4. CASE d # c
    <3>1. TakenUp(b, d)
      BY <1>1, <2>1, <2>4 DEF TakenUp, SamePairs
    <3> QED
      BY <1>4, <2>3, <3>1, TakenUpStays DEF Flow
  <2> QED
    BY <1>4, <2>3, <2>4
<1>6. SamePairs(State, t) /\ t.offers = offers /\ t.answers = answers /\ t.cands = cands
  BY <1>1, <1>3, StateFacts DEF SamePairs
<1>7. \A d \in live : /\ cands[d] <= t.cands[d]
                      /\ partner[d] # None =>
                            d \notin t.offers /\ d \notin t.answers /\ t.cands[d] = 0
  BY <1>6, StateFacts
<1> QED
  BY <1>0, <1>3, <1>5, <1>6, <1>7, FlowDelivers DEF Good

\* An answer ends a negotiation and takes up what waited for its end; without a
\* partner it is cached.
LEMMA AnswerSmooth ==
    ASSUME IInv, NothingLiesIdle, NEW c \in Conns, OnAnswer(c)
    PROVE  Smooth
<1> DEFINE p == Partner(State, c)
           asserted == BoostAssert(State, c \notin answers, "on_answer:99")
           cached == [asserted EXCEPT !.answers = @ \cup {c}]
           t == SendAnswer(State, p)
<1>1. Good(State) /\ Typed(State) /\ c \in live /\ c \in State.live /\ p = partner[c]
        /\ (p # None => p \in State.live)
  BY StateFacts, PartnerLemma DEF OnAnswer, Handles, Good
<1>2. CASE p # None
  <2>1. Become(t)
    BY <1>2 DEF OnAnswer
  <2>2. /\ Good(t) /\ SamePairs(State, t) /\ t.offers = State.offers
        /\ t.answers = State.answers /\ t.cands = State.cands
    BY <1>1, <1>2, SendAnswerLemma
  <2>3. /\ Flow(State, t)
        /\ OthersTakenUp(State, p) => \A e \in State.live : TakenUp(t, e)
    BY <1>1, <1>2, SendAnswerFlow
  <2> HIDE DEF t
  <2>4. OthersTakenUp(State, p)
    BY StateFacts DEF OthersTakenUp
  <2>5. \A d \in live : TakenUp(t, d) /\ Upholds(State, t, d)
    BY <2>3, <2>4, StateFacts DEF Flow
  <2>6. t.offers = offers /\ t.answers = answers /\ t.cands = cands
    BY <2>2, StateFacts
  <2>7. \A d \in live : /\ cands[d] <= t.cands[d]
                        /\ partner[d] # None =>
                              d \notin t.offers /\ d \notin t.answers /\ t.cands[d] = 0
    BY <2>6, StateFacts
  <2> QED
    BY <2>1, <2>2, <2>5, <2>6, <2>7, FlowDelivers DEF Good
<1>3. CASE p = None
  <2>1. "on_answer:99" \in Assertions
    BY DEF Assertions
  <2>2. /\ Typed(asserted) /\ SamePairs(State, asserted) /\ asserted.active = State.active
        /\ asserted.wants = State.wants /\ asserted.offers = State.offers
        /\ asserted.answers = State.answers /\ asserted.cands = State.cands
    BY <1>1, <2>1, AssertLemma
  <2>3. asserted.out = State.out
    BY <1>1 DEF BoostAssert, Typed, States
  <2> HIDE DEF asserted
  <2>4. /\ Typed(cached) /\ SamePairs(State, cached) /\ cached.active = State.active
        /\ cached.wants = State.wants /\ cached.offers = State.offers
        /\ cached.answers = State.answers \cup {c} /\ cached.cands = State.cands
        /\ cached.out = State.out
    BY <1>1, <2>2, <2>3 DEF Typed, States, SamePairs
  <2>5. Become(cached)
    BY <1>3 DEF OnAnswer, asserted
  <2> HIDE DEF cached
  <2>6. \A d \in live : TakenUp(cached, d) /\ Upholds(State, cached, d)
    BY <2>4, StateFacts DEF TakenUp, Upholds, Says, SamePairs
  <2>7. /\ offers \subseteq cached.offers /\ answers \subseteq cached.answers
        /\ \A d \in live : cands[d] <= cached.cands[d]
    BY <2>4, StateFacts
  <2>8. \A d \in live : partner[d] # None =>
            d \notin cached.offers /\ d \notin cached.answers /\ cached.cands[d] = 0
    BY <1>1, <1>3, <2>4, StateFacts
  <2> QED
    BY <2>4, <2>5, <2>6, <2>7, <2>8, FlowDelivers
<1> QED
  BY <1>2, <1>3

\* An offer is handed on, or cached without a partner.
LEMMA OfferSmooth ==
    ASSUME IInv, NothingLiesIdle, NEW c \in Conns, OnOffer(c)
    PROVE  Smooth
<1> DEFINE p == Partner(State, c)
           asserted == BoostAssert(State, c \notin offers, "on_offer:111")
           cached == [asserted EXCEPT !.offers = @ \cup {c}]
           t == Send(State, p, "offer")
<1>1. Good(State) /\ Typed(State) /\ c \in live /\ c \in State.live /\ p = partner[c]
        /\ (p # None => p \in Conns) /\ "offer" \in Messages
  BY StateFacts, PartnerLemma DEF OnOffer, Handles, Good, Messages
<1>2. CASE p # None
  <2>1. Become(t)
    BY <1>2 DEF OnOffer
  <2>2. /\ Typed(t) /\ SamePairs(State, t) /\ t.active = State.active
        /\ t.wants = State.wants /\ t.offers = State.offers
        /\ t.answers = State.answers /\ t.cands = State.cands
    BY <1>1, <1>2, SendLemma
  <2>3. Flow(State, t)
    BY <1>1, <1>2, SendFlow
  <2> HIDE DEF t
  <2>5. \A d \in live : TakenUp(t, d) /\ Upholds(State, t, d)
    BY <2>2, <2>3, StateFacts DEF Flow, TakenUp, SamePairs
  <2>6. t.offers = offers /\ t.answers = answers /\ t.cands = cands
    BY <2>2, StateFacts
  <2>7. \A d \in live : /\ cands[d] <= t.cands[d]
                        /\ partner[d] # None =>
                              d \notin t.offers /\ d \notin t.answers /\ t.cands[d] = 0
    BY <2>6, StateFacts
  <2> QED
    BY <2>1, <2>2, <2>5, <2>6, <2>7, FlowDelivers
<1>3. CASE p = None
  <2>1. "on_offer:111" \in Assertions
    BY DEF Assertions
  <2>2. /\ Typed(asserted) /\ SamePairs(State, asserted) /\ asserted.active = State.active
        /\ asserted.wants = State.wants /\ asserted.offers = State.offers
        /\ asserted.answers = State.answers /\ asserted.cands = State.cands
    BY <1>1, <2>1, AssertLemma
  <2>3. asserted.out = State.out
    BY <1>1 DEF BoostAssert, Typed, States
  <2> HIDE DEF asserted
  <2>4. /\ Typed(cached) /\ SamePairs(State, cached) /\ cached.active = State.active
        /\ cached.wants = State.wants /\ cached.answers = State.answers
        /\ cached.offers = State.offers \cup {c} /\ cached.cands = State.cands
        /\ cached.out = State.out
    BY <1>1, <2>2, <2>3 DEF Typed, States, SamePairs
  <2>5. Become(cached)
    BY <1>3 DEF OnOffer, asserted
  <2> HIDE DEF cached
  <2>6. \A d \in live : TakenUp(cached, d) /\ Upholds(State, cached, d)
    BY <2>4, StateFacts DEF TakenUp, Upholds, Says, SamePairs
  <2>7. /\ offers \subseteq cached.offers /\ answers \subseteq cached.answers
        /\ \A d \in live : cands[d] <= cached.cands[d]
    BY <2>4, StateFacts
  <2>8. \A d \in live : partner[d] # None =>
            d \notin cached.offers /\ d \notin cached.answers /\ cached.cands[d] = 0
    BY <1>1, <1>3, <2>4, StateFacts
  <2> QED
    BY <2>4, <2>5, <2>6, <2>7, <2>8, FlowDelivers
<1> QED
  BY <1>2, <1>3

\* So is a candidate.
LEMMA IceSmooth ==
    ASSUME IInv, NothingLiesIdle, NEW c \in Conns, OnIceCandidate(c)
    PROVE  Smooth
<1> DEFINE p == Partner(State, c)
           cached == [State EXCEPT !.cands[c] = @ + 1]
           t == SendIce(State, p, 1)
<1>1. Good(State) /\ Typed(State) /\ c \in live /\ c \in State.live /\ p = partner[c]
        /\ (p # None => p \in Conns) /\ c \in Conns
  BY StateFacts, PartnerLemma DEF OnIceCandidate, Handles, Good
<1>2. CASE p # None
  <2>1. Become(t)
    BY <1>2 DEF OnIceCandidate
  <2>2. /\ Typed(t) /\ SamePairs(State, t) /\ t.active = State.active
        /\ t.wants = State.wants /\ t.offers = State.offers
        /\ t.answers = State.answers /\ t.cands = State.cands
    BY <1>1, <1>2, SendIceLemma
  <2>3. Flow(State, t)
    BY <1>1, <1>2, SendIceFlow
  <2> HIDE DEF t
  <2>5. \A d \in live : TakenUp(t, d) /\ Upholds(State, t, d)
    BY <2>2, <2>3, StateFacts DEF Flow, TakenUp, SamePairs
  <2>6. t.offers = offers /\ t.answers = answers /\ t.cands = cands
    BY <2>2, StateFacts
  <2>7. \A d \in live : /\ cands[d] <= t.cands[d]
                        /\ partner[d] # None =>
                              d \notin t.offers /\ d \notin t.answers /\ t.cands[d] = 0
    BY <2>6, StateFacts
  <2> QED
    BY <2>1, <2>2, <2>5, <2>6, <2>7, FlowDelivers
<1>3. CASE p = None
  <2>1. cands[c] < MaxCandidates /\ cands[c] \in 0..MaxCandidates
    BY <1>1, <1>3 DEF OnIceCandidate, IInv, ServerTypeOK
  <2> DEFINE more == [cands EXCEPT ![c] = @ + 1]
  <2>2. more \in [Conns -> 0..MaxCandidates]
    BY <2>1, BoundAssumption DEF IInv, ServerTypeOK
  <2>3. cached = [State EXCEPT !.cands = more]
    BY DEF State
  <2>a. \A d \in live : cands[d] <= more[d] /\ (d # c => more[d] = cands[d])
    BY <2>1, StateFacts, BoundAssumption DEF IInv, ServerTypeOK
  <2>5. Become(cached)
    BY <1>3 DEF OnIceCandidate
  <2> HIDE DEF more, cached
  <2>4. /\ Typed(cached) /\ SamePairs(State, cached) /\ cached.active = State.active
        /\ cached.wants = State.wants /\ cached.answers = State.answers
        /\ cached.offers = State.offers /\ cached.cands = more
        /\ cached.out = State.out
    BY <1>1, <2>2, <2>3 DEF Typed, States, SamePairs
  <2>6. \A d \in live : TakenUp(cached, d) /\ Upholds(State, cached, d)
    BY <2>4, StateFacts DEF TakenUp, Upholds, Says, SamePairs
  <2>7. /\ offers \subseteq cached.offers /\ answers \subseteq cached.answers
        /\ \A d \in live : cands[d] <= cached.cands[d]
    BY <2>4, <2>a, StateFacts
  <2>8. \A d \in live : partner[d] # None =>
            d \notin cached.offers /\ d \notin cached.answers /\ cached.cands[d] = 0
    BY <1>1, <1>3, <2>4, <2>a, StateFacts
  <2> QED
    BY <2>4, <2>5, <2>6, <2>7, <2>8, FlowDelivers
<1> QED
  BY <1>2, <1>3

\* Partners point at each other, and nobody points at itself.
LEMMA PartnersPoint ==
    ASSUME IInv, NEW d \in live, partner[d] # None
    PROVE  partner[d] \in live /\ partner[d] # d /\ partner[partner[d]] = d
BY StateGood DEF Good, Paired, State

\* Nothing was sent when a handler begins.
LEMMA NothingSaid == ASSUME NEW s, s.out = Quiet, NEW d \in Conns, NEW m PROVE ~Says(s, d, m)
BY DEF Says, Quiet

\* The device that stays alone wishes again for what it negotiated; the other
\* pairs do not notice.
LEMMA ClosedSmooth ==
    ASSUME IInv, NothingLiesIdle, NEW c \in Conns, OnClosed(c)
    PROVE  Smooth
<1>1. CASE c \notin live
  BY <1>1, StillStep DEF OnClosed
<1>2. CASE c \in live
  <2> DEFINE other == OtherThan(c)
             reset == IF other = None THEN State ELSE ResetPartner(State, other)
             gone  == Destroy(reset, c)
             rest  == live \ {c}
  <2>1. /\ other # c /\ partner[c] = other
        /\ other # None => other \in live /\ partner[other] = c
    BY <1>2, ClosedSlot
  <2>2. Become(gone)
    <3>1. slot[regKey[c]][MineOf(c)] = c
      BY <1>2, ClosedSlot
    <3> QED
      BY <1>2, <3>1 DEF OnClosed, MineOf, OtherThan
  <2> HIDE DEF other
  <2>3. /\ Typed(reset) /\ reset.live = live /\ reset.active = active \ {other}
        /\ reset.wants = wants \cup ({other} \cap active)
        /\ reset.offers = offers /\ reset.answers = answers /\ reset.cands = cands
        /\ reset.out = Quiet
        /\ \A d \in live : reset.partner[d] = IF d = other THEN None ELSE partner[d]
    <3>1. CASE other = None
      <4>1. reset = State /\ other \notin live
        BY <3>1, StateFacts, NoneAssumption
      <4>2. active \ {other} = active /\ wants \cup ({other} \cap active) = wants
        BY <4>1 DEF IInv, ServerTypeOK
      <4>3. \A d \in live : d # other
        BY <4>1
      <4> HIDE DEF reset
      <4> QED
        BY <4>1, <4>2, <4>3, StateFacts
    <3>2. CASE other # None
      <4>1. reset = ResetPartner(State, other) /\ other \in State.live /\ Typed(State)
        BY <2>1, <3>2, StateFacts
      <4> HIDE DEF reset
      <4>2. /\ Typed(reset) /\ reset.live = State.live /\ reset.active = State.active \ {other}
            /\ reset.wants = State.wants \cup ({other} \cap State.active)
            /\ reset.offers = State.offers /\ reset.answers = State.answers
            /\ reset.cands = State.cands /\ reset.out = State.out
            /\ reset.partner = [State.partner EXCEPT ![other] = None]
        BY <4>1, ResetPartnerLemma
      <4>3. partner \in [Conns -> ConnsOrNone] /\ live \subseteq Conns
        BY DEF IInv, ServerTypeOK
      <4> QED
        BY <4>2, <4>3, StateFacts
    <3> QED
      BY <3>1, <3>2
  <2> HIDE DEF reset
  <2>4. rest \in SUBSET Conns /\ reset.live \ {c} \subseteq rest
          /\ gone = Clean(reset, c, rest)
    BY <2>3, StateFacts DEF Destroy, Clean
  <2> HIDE DEF gone, rest
  <2>5. /\ Typed(gone) /\ gone.live = rest
        /\ \A e \in Conns : gone.partner[e] = IF e = c THEN None ELSE reset.partner[e]
        /\ \A e \in Conns : gone.cands[e] = IF e = c THEN 0 ELSE reset.cands[e]
        /\ gone.active = reset.active \ {c} /\ gone.wants = reset.wants \ {c}
        /\ gone.offers = reset.offers \ {c} /\ gone.answers = reset.answers \ {c}
        /\ gone.out = reset.out
    BY <2>3, <2>4, CleanLemma
  <2>6. ASSUME NEW d \in gone.live
        PROVE  /\ d \in live /\ d # c /\ d \in Conns
               /\ gone.partner[d] = IF d = other THEN None ELSE partner[d]
               /\ gone.cands[d] = cands[d]
    BY <2>3, <2>5, StateFacts DEF rest
  <2>7. Idleless(gone)
    <3> SUFFICES ASSUME NEW d \in gone.live, gone.partner[d] # None
                 PROVE  /\ d \in gone.wants => d \in gone.active \/ gone.partner[d] \in gone.active
                        /\ d \notin gone.offers /\ d \notin gone.answers /\ gone.cands[d] = 0
      BY DEF Idleless, TakenUp
    <3>1. /\ d \in live /\ d # c /\ d # other /\ gone.partner[d] = partner[d]
          /\ gone.cands[d] = cands[d] /\ partner[d] # None
      BY <2>6
    <3>2. partner[d] # c /\ partner[d] # other
      <4>1. partner[partner[d]] = d
        BY <3>1, PartnersPoint
      <4> QED
        BY <2>1, <3>1, <4>1
    <3>3. TakenUp(State, d) /\ d \notin offers /\ d \notin answers /\ cands[d] = 0
      BY <3>1, StateFacts
    <3>4. d \in wants => d \in active \/ partner[d] \in active
      BY <3>1, <3>3, StateFacts DEF TakenUp
    <3> QED
      BY <2>3, <2>5, <3>1, <3>2, <3>3, <3>4
  <2>8. Delivers(gone)
    <3> SUFFICES ASSUME NEW d \in live \cap gone.live
                 PROVE  /\ Upholds(State, gone, d)
                        /\ d \in offers => d \in gone.offers
                        /\ d \in answers => d \in gone.answers
                        /\ ~(gone.cands[d] < cands[d])
      BY DEF Delivers
    <3>1. d # c /\ d \in Conns /\ gone.cands[d] = cands[d] /\ cands[d] \in Nat
      BY <2>6, StateFacts
    <3>2. ~Says(State, d, "answer")
      BY <3>1, StateFacts, NothingSaid
    <3>3. d \in wants \/ d \in active => d \in gone.wants \/ d \in gone.active
      BY <2>3, <2>5, <3>1
    <3> QED
      BY <2>3, <2>5, <3>1, <3>2, <3>3, StateFacts DEF Upholds
  <2> QED
    BY <2>2, <2>5, <2>7, <2>8, SmoothStep
<1> QED
  BY <1>1, <1>2

\* The device that comes finds its partner, hears all it cached, and the wish of
\* the partner is taken up; nobody else notices.
LEMMA RegisterSmooth ==
    ASSUME IInv, NothingLiesIdle, NEW c \in Conns, NEW k \in Keys, NEW t \in Tokens,
           Register(c, k, t)
    PROVE  Smooth
<1> DEFINE old     == OldOf(k, t)
           other   == OtherOf(k, t)
           checked == Checked(c, k, t)
           paired  == IF other = None THEN checked
                      ELSE SetPartner(SetPartner(checked, c, other), other, c)
<1>1. c \notin live /\ Become(paired)
  BY DEF Register, Checked, OldOf, OtherOf
<1>2. /\ old \in live \cup {None}
      /\ old # None => partner[old] = other
      /\ other \in (live \ {old}) \cup {None}
      /\ other # None => partner[other] = old
      /\ c # old /\ c # other /\ c # None
      /\ live \subseteq Conns /\ active \subseteq live
  BY <1>1, SlotsLemma
<1>3. /\ Typed(checked) /\ checked.live = (live \cup {c}) \ {old}
      /\ checked.active = active \ {old} /\ Fresh(checked, c)
      /\ checked.wants = wants \ {old} /\ checked.offers = offers \ {old}
      /\ checked.answers = answers \ {old} /\ checked.out = Quiet
      /\ \A d \in live \ {old} : checked.cands[d] = cands[d]
      /\ \A d \in Conns :
            checked.partner[d] = IF d \in {c, old} THEN None ELSE partner[d]
  BY <1>1, CheckedLemma
<1>4. Apart(checked, c, other)
  BY <1>1, ApartLemma
<1> HIDE DEF old, other, checked
<1>5. ASSUME NEW d \in live \ {old}
      PROVE  /\ d \in Conns /\ d # c /\ d # None /\ checked.partner[d] = partner[d]
             /\ partner[d] # None /\ d # other => partner[d] # old /\ partner[d] # c
  <2>1. d \in Conns /\ d # c /\ d # None /\ checked.partner[d] = partner[d]
    BY <1>1, <1>2, <1>3, NoneAssumption
  <2>2. ASSUME partner[d] # None, d # other PROVE partner[d] # old /\ partner[d] # c
    <3>1. partner[partner[d]] = d /\ partner[d] \in live
      BY <2>2, PartnersPoint
    <3> QED
      BY <1>1, <1>2, <2>2, <3>1
  <2> QED
    BY <2>1, <2>2
<1>6. ASSUME NEW d \in live \ {old}, d # other PROVE TakenUp(checked, d)
  <2>1. TakenUp(State, d)
    BY StateFacts
  <2>2. d \in wants /\ partner[d] # None => d \in active \/ partner[d] \in active
    BY <2>1, StateFacts DEF TakenUp
  <2> QED
    BY <1>3, <1>5, <1>6, <2>2 DEF TakenUp
<1>7. ASSUME NEW d \in live \ {old}
      PROVE  /\ Upholds(State, checked, d)
             /\ d \in offers => d \in checked.offers
             /\ d \in answers => d \in checked.answers
             /\ checked.cands[d] = cands[d] /\ cands[d] \in Nat
  <2>1. ~Says(State, d, "answer")
    BY <1>5, StateFacts, NothingSaid
  <2>2. Upholds(State, checked, d)
    BY <1>3, <2>1, StateFacts DEF Upholds
  <2> QED
    BY <1>3, <2>2, StateFacts
<1>8. CASE other = None
  <2>1. paired = checked
    BY <1>8
  <2> HIDE DEF paired
  <2>2. Idleless(checked)
    <3> SUFFICES ASSUME NEW d \in checked.live
                 PROVE  /\ TakenUp(checked, d)
                        /\ checked.partner[d] # None =>
                              d \notin checked.offers /\ d \notin checked.answers
                              /\ checked.cands[d] = 0
      BY DEF Idleless
    <3>1. CASE d = c
      BY <1>3, <3>1 DEF Fresh, TakenUp
    <3>2. CASE d # c
      <4>1. d \in live \ {old} /\ d # other
        BY <1>2, <1>3, <1>5, <1>8, <3>2, NoneAssumption
      <4>2. checked.partner[d] = partner[d] /\ checked.cands[d] = cands[d]
        BY <1>3, <1>5, <4>1
      <4> QED
        BY <1>3, <1>6, <4>1, <4>2, StateFacts
    <3> QED
      BY <3>1, <3>2
  <2>3. Delivers(checked)
    <3> SUFFICES ASSUME NEW d \in live \cap checked.live
                 PROVE  /\ Upholds(State, checked, d)
                        /\ d \in offers => d \in checked.offers
                        /\ d \in answers => d \in checked.answers
                        /\ ~(checked.cands[d] < cands[d])
      BY DEF Delivers
    <3>1. d \in live \ {old}
      BY <1>3
    <3> QED
      BY <1>7, <3>1
  <2> QED
    BY <1>1, <1>3, <2>1, <2>2, <2>3, SmoothStep
<1>9. CASE other # None
  <2>1. paired = SetPartner(SetPartner(checked, c, other), other, c)
    BY <1>9
  <2> HIDE DEF paired
  <2>2. /\ c \in checked.live /\ other \in checked.live /\ c # other
        /\ c \notin checked.active /\ other \in live \ {old}
    BY <1>1, <1>2, <1>3, <1>9
  <2>3. \A e \in checked.live \ {c, other} : TakenUp(checked, e)
    BY <1>3, <1>6
  <2>4. /\ Good(paired) /\ paired.live = checked.live
        /\ \A d \in Conns : paired.partner[d] = IF d = c THEN other
               ELSE IF d = other THEN c ELSE checked.partner[d]
    BY <1>3, <1>4, <2>1, <2>2, PairLemma DEF Fresh
  <2>5. /\ \A e \in checked.live : TakenUp(paired, e)
        /\ \A e \in Conns : Upholds(checked, paired, e)
        /\ paired.offers = checked.offers \ {other}
        /\ paired.answers = checked.answers \ {other}
        /\ \A e \in Conns : paired.cands[e] = IF e = other THEN 0 ELSE checked.cands[e]
        /\ other \in checked.offers => Says(paired, c, "offer")
        /\ other \in checked.answers => Says(paired, c, "answer")
        /\ IcedFrom(paired, c, Len(checked.out[c]), checked.cands[other])
    BY <1>3, <1>4, <2>1, <2>2, <2>3, PairFlow DEF Fresh
  <2>6. Idleless(paired)
    <3> SUFFICES ASSUME NEW d \in checked.live
                 PROVE  /\ TakenUp(paired, d)
                        /\ paired.partner[d] # None =>
                              d \notin paired.offers /\ d \notin paired.answers
                              /\ paired.cands[d] = 0
      BY <2>4 DEF Idleless
    <3>1. CASE d = c
      BY <1>3, <2>2, <2>5, <3>1 DEF Fresh
    <3>2. CASE d = other
      BY <1>5, <2>2, <2>5, <3>2
    <3>3. CASE d \notin {c, other}
      <4>1. d \in live \ {old} /\ d \in Conns
        BY <1>2, <1>3, <1>5, <3>3
      <4>2. paired.partner[d] = partner[d] /\ paired.cands[d] = cands[d]
        BY <1>3, <1>5, <2>4, <2>5, <3>3, <4>1
      <4> QED
        BY <1>3, <2>5, <4>1, <4>2, StateFacts
    <3> QED
      BY <3>1, <3>2, <3>3
  <2>7. Delivers(paired)
    <3> SUFFICES ASSUME NEW d \in live \cap paired.live
                 PROVE  LET p == paired.partner[d] IN
                        /\ Upholds(State, paired, d)
                        /\ d \in offers /\ d \notin paired.offers =>
                              p \in Conns /\ Says(paired, p, "offer")
                        /\ d \in answers /\ d \notin paired.answers =>
                              p \in Conns /\ Says(paired, p, "answer")
                        /\ paired.cands[d] < cands[d] => IcedFrom(paired, p, 0, cands[d])
      BY DEF Delivers
    <3>1. d \in live \ {old} /\ d \in Conns
      BY <1>3, <1>5, <2>4
    <3>2. Upholds(State, paired, d)
      BY <1>7, <2>5, <3>1 DEF Upholds
    <3>3. CASE d = other
      <4>1. paired.partner[d] = c
        BY <2>2, <2>4, <3>1, <3>3
      <4>2. Len(checked.out[c]) = 0 /\ checked.cands[other] = cands[other]
        BY <1>3, <2>2 DEF Quiet
      <4> QED
        BY <1>7, <2>5, <3>1, <3>2, <3>3, <4>1, <4>2
    <3>4. CASE d # other
      <4>1. paired.cands[d] = cands[d] /\ cands[d] \in Nat
        BY <1>7, <2>5, <3>1, <3>4
      <4> QED
        BY <1>7, <2>5, <3>1, <3>2, <3>4, <4>1
    <3> QED
      BY <3>3, <3>4
  <2> QED
    BY <1>1, <2>1, <2>4, <2>6, <2>7, SmoothStep DEF Good
<1> QED
  BY <1>8, <1>9

\* Every handler is smooth.
LEMMA SmoothNext == IInv /\ NothingLiesIdle /\ [ServerNext]_serverVars => Smooth
<1> SUFFICES ASSUME IInv, NothingLiesIdle, [ServerNext]_serverVars PROVE Smooth
  OBVIOUS
<1>1. CASE UNCHANGED serverVars
  BY <1>1, StillStep DEF serverVars
<1>2. CASE ServerNext
  <2> PICK c \in Conns :
        \/ Accept(c)
        \/ \E k \in Keys, t \in Tokens : Register(c, k, t)
        \/ OnWantToNegotiate(c) \/ OnAnswer(c) \/ OnOffer(c)
        \/ OnIceCandidate(c) \/ OnClosed(c)
    BY <1>2 DEF ServerNext
  <2>1. CASE Accept(c)
    BY <2>1, StillStep DEF Accept
  <2>2. CASE \E k \in Keys, t \in Tokens : Register(c, k, t)
    BY <2>2, RegisterSmooth
  <2>3. CASE OnWantToNegotiate(c)
    BY <2>3, WantSmooth
  <2>4. CASE OnAnswer(c)
    BY <2>4, AnswerSmooth
  <2>5. CASE OnOffer(c)
    BY <2>5, OfferSmooth
  <2>6. CASE OnIceCandidate(c)
    BY <2>6, IceSmooth
  <2>7. CASE OnClosed(c)
    BY <2>7, ClosedSmooth
  <2> QED
    BY <2>1, <2>2, <2>3, <2>4, <2>5, <2>6, <2>7
<1> QED
  BY <1>1, <1>2

-----------------------------------------------------------------------------
(* Every handler                                                           *)

\* A server without connections keeps the invariant trivially.
LEMMA InitLemma == ServerInit => IInv
<1> SUFFICES ASSUME ServerInit PROVE IInv
  OBVIOUS
<1>1. ServerTypeOK
  BY BoundAssumption
  DEF ServerInit, ServerTypeOK, Quiet, ConnsOrNone
<1>2. \A k \in Keys, i \in Index : slot[k][i] = None
  BY DEF ServerInit
<1> QED
  BY <1>1, <1>2
  DEF ServerInit, IInv, RegistryHoldsTheLive, TokensDiffer, PartnersAreMutual,
      OneNegotiator, Index

\* Every handler keeps the invariant.
LEMMA NextLemma == IInv /\ [ServerNext]_serverVars => IInv'
<1> SUFFICES ASSUME IInv, [ServerNext]_serverVars PROVE IInv'
  OBVIOUS
<1>1. CASE UNCHANGED serverVars
  BY <1>1
  DEF serverVars, registry, devices, IInv, ServerTypeOK, RegistryHoldsTheLive,
      TokensDiffer, PartnersAreMutual, OneNegotiator
<1>2. CASE ServerNext
  <2> PICK c \in Conns :
        \/ Accept(c)
        \/ \E k \in Keys, t \in Tokens : Register(c, k, t)
        \/ OnWantToNegotiate(c) \/ OnAnswer(c) \/ OnOffer(c)
        \/ OnIceCandidate(c) \/ OnClosed(c)
    BY <1>2 DEF ServerNext
  <2>1. CASE Accept(c)
    BY <2>1, AcceptStep
  <2>2. CASE \E k \in Keys, t \in Tokens : Register(c, k, t)
    BY <2>2, RegisterStep
  <2>3. CASE OnWantToNegotiate(c)
    BY <2>3, WantStep
  <2>4. CASE OnAnswer(c)
    BY <2>4, AnswerStep
  <2>5. CASE OnOffer(c)
    BY <2>5, OfferStep
  <2>6. CASE OnIceCandidate(c)
    BY <2>6, IceStep
  <2>7. CASE OnClosed(c)
    BY <2>7, ClosedStep
  <2> QED
    BY <2>1, <2>2, <2>3, <2>4, <2>5, <2>6, <2>7
<1> QED
  BY <1>1, <1>2

-----------------------------------------------------------------------------
(* What the clients rely on.                                               *)

\* A device goes only with its connection.
LEMMA DevicesStay ==
    ASSUME IInv, [ServerNext]_serverVars, NEW d \in live, conn'[d] # "closed"
    PROVE  d \in live'
<1> DEFINE k == regKey[d]
<1>1. IInv'
  BY NextLemma
<1>2. PICK i \in Index : slot[k][i] = d
  BY OneSlot
<1>3. d \in Conns /\ d # None /\ k \in Keys
  BY NoneAssumption DEF IInv, ServerTypeOK, RegistryHoldsTheLive
<1> HIDE DEF k
<1>4. ASSUME slot'[k][i] = d PROVE d \in live'
  BY <1>1, <1>3, <1>4 DEF IInv, RegistryHoldsTheLive
<1>5. CASE UNCHANGED slot
  BY <1>2, <1>4, <1>5
<1>6. ASSUME NEW c \in Conns, NEW l \in Keys, NEW t \in Tokens, Register(c, l, t), slot' # slot
      PROVE  slot'[k][i] = d
  <2> DEFINE mine == SlotOf(l, t)
             old == slot[l][mine]
  <2>1. /\ slot' = [slot EXCEPT ![l][mine] = c]
        /\ conn' = [x \in Conns |-> IF x = old THEN "closed" ELSE conn[x]]
    BY <1>6 DEF Register, registry
  <2>2. mine \in Index
    BY RegisteredSlot
  <2>3. d # old
    BY <1>3, <2>1
  <2>4. ~(k = l /\ i = mine)
    BY <1>2, <2>3
  <2> HIDE DEF mine
  <2> QED
    BY <1>2, <1>3, <2>1, <2>2, <2>4 DEF IInv, ServerTypeOK
<1>7. ASSUME NEW c \in Conns, OnClosed(c), slot' # slot
      PROVE  slot'[k][i] = d
  <2> DEFINE mine == MineOf(c)
  <2>1. /\ c \in live /\ slot' = [slot EXCEPT ![regKey[c]][mine] = None]
        /\ conn' = [conn EXCEPT ![c] = "closed"]
    BY <1>7 DEF OnClosed, MineOf
  <2>2. mine \in Index /\ regKey[c] \in Keys /\ slot[regKey[c]][mine] = c
    BY <2>1, ClosedSlot
  <2>3. d # c
    BY <1>3, <2>1 DEF IInv, ServerTypeOK
  <2>4. ~(k = regKey[c] /\ i = mine)
    BY <1>2, <2>2, <2>3
  <2> HIDE DEF mine
  <2> QED
    BY <1>2, <1>3, <2>1, <2>2, <2>4 DEF IInv, ServerTypeOK
<1> QED
  BY <1>4, <1>5, <1>6, <1>7
     DEF ServerNext, serverVars, registry, Accept, OnWantToNegotiate, OnAnswer, OnOffer,
         OnIceCandidate

\* A registration makes a device, unless its assertions end the server.
LEMMA RegisteredLives ==
    ASSUME IInv, NEW c \in Conns, NEW k \in Keys, NEW t \in Tokens, Register(c, k, t), Running'
    PROVE  c \in live'
<1> DEFINE mine == SlotOf(k, t)
<1>1. IInv' /\ mine \in Index
  BY RegisterStep, RegisteredSlot
<1>2. ASSUME NEW s, Become(s), Aborts(s) PROVE FALSE
  <2>1. failed' = failed \cup s.failed
    BY <1>2 DEF Become
  <2> QED
    BY <1>2, <2>1 DEF Aborts, Running
<1>3. slot' = [slot EXCEPT ![k][mine] = c]
  BY <1>2 DEF Register
<1> HIDE DEF mine
<1>4. slot'[k][mine] = c /\ c # None
  BY <1>1, <1>3, NoneAssumption DEF IInv, ServerTypeOK
<1> QED
  BY <1>1, <1>4 DEF IInv, RegistryHoldsTheLive

-----------------------------------------------------------------------------
(* What exactly a handler does to a pair of which nothing was cached, and    *)
(* what it says.                                                             *)

\* t is s, but d negotiates now and was told.
Begun(s, t, d) ==
    /\ t.active = s.active \cup {d} /\ t.wants = s.wants \ {d}
    /\ t.out = [s.out EXCEPT ![d] = Append(@, "create_offer")]
    /\ t.live = s.live /\ t.partner = s.partner /\ t.failed = s.failed
    /\ t.offers = s.offers /\ t.answers = s.answers

\* negotiate() begins a negotiation that is wished for and not in the way of another.
LEMMA NegotiateEffect ==
    ASSUME NEW s, Typed(s), NEW d \in s.live, NEW p, p = Partner(s, d)
    PROVE  IF d \in s.wants /\ d \notin s.active /\ p # None /\ p \notin s.active
           THEN Begun(s, Negotiate(s, d), d)
           ELSE Negotiate(s, d) = s
BY DEF Negotiate, Send, Begun, Typed, States

\* The state that a handler begins with.
LEMMA StateIs ==
    /\ State.live = live /\ State.partner = partner /\ State.wants = wants
    /\ State.active = active /\ State.offers = offers /\ State.answers = answers
    /\ State.cands = cands /\ State.out = Quiet /\ State.failed = {}
BY DEF State

\* A handler without a failed assertion does what its methods did.
LEMMA BecomeEffect ==
    ASSUME NEW s, Become(s), s.failed = {}
    PROVE  /\ live' = s.live /\ partner' = s.partner /\ wants' = s.wants
           /\ active' = s.active /\ offers' = s.offers /\ answers' = s.answers
           /\ out' = s.out /\ failed' = failed
BY DEF Become, Aborts

\* A wish is stored, or taken up at once.
LEMMA WantEffect ==
    ASSUME IInv, NEW c \in Conns, OnWantToNegotiate(c)
    PROVE  /\ UNCHANGED <<live, partner, offers, answers, failed>>
           /\ \/ /\ active' = active /\ wants' = wants \cup {c} /\ out' = Quiet
              \/ /\ c \notin active /\ partner[c] # None /\ partner[c] \notin active
                 /\ active' = active \cup {c} /\ wants' = wants \ {c}
                 /\ out' = [Quiet EXCEPT ![c] = Append(@, "create_offer")]
<1> DEFINE s == [State EXCEPT !.wants = @ \cup {c}]
           t == Negotiate(s, c)
<1>1. Good(State) /\ c \in live /\ Become(t)
  BY StateGood DEF OnWantToNegotiate, Handles
<1>2. /\ Typed(s) /\ s.live = live /\ s.partner = partner /\ s.wants = wants \cup {c}
      /\ s.active = active /\ s.offers = offers /\ s.answers = answers
      /\ s.out = Quiet /\ s.failed = {}
  BY <1>1, StateIs DEF Good, Typed, States, State
<1> HIDE DEF s
<1>3. Partner(s, c) = partner[c]
  <2>1. Partner(State, c) = partner[c]
    BY <1>1, PartnerLemma, StateIs DEF Good
  <2> QED
    BY <1>2, <2>1, StateIs DEF Partner
<1>4. \/ Begun(s, t, c) /\ c \notin active /\ partner[c] # None /\ partner[c] \notin active
      \/ t = s
  BY <1>1, <1>2, <1>3, NegotiateEffect
<1> HIDE DEF t
<1>5. t.failed = {}
  BY <1>2, <1>4 DEF Begun
<1>6. /\ live' = t.live /\ partner' = t.partner /\ wants' = t.wants
      /\ active' = t.active /\ offers' = t.offers /\ answers' = t.answers
      /\ out' = t.out /\ failed' = failed
  BY <1>1, <1>5, BecomeEffect
<1>7. (wants \cup {c}) \ {c} = wants \ {c}
  OBVIOUS
<1> QED
  BY <1>2, <1>4, <1>6, <1>7 DEF Begun

\* An offer goes to the partner.
LEMMA OfferEffect ==
    ASSUME IInv, NEW c \in Conns, OnOffer(c), partner[c] # None
    PROVE  /\ UNCHANGED <<live, partner, wants, active, offers, answers, failed>>
           /\ out' = [Quiet EXCEPT ![partner[c]] = Append(@, "offer")]
<1> DEFINE t == Send(State, partner[c], "offer")
<1>1. Good(State) /\ c \in live
  BY StateGood DEF OnOffer, Handles
<1>2. Partner(State, c) = partner[c]
  BY <1>1, PartnerLemma, StateIs DEF Good
<1>3. Become(t)
  BY <1>2 DEF OnOffer
<1>4. /\ t.live = live /\ t.partner = partner /\ t.wants = wants /\ t.active = active
      /\ t.offers = offers /\ t.answers = answers /\ t.failed = {}
      /\ t.out = [Quiet EXCEPT ![partner[c]] = Append(@, "offer")]
  BY DEF Send, State
<1> HIDE DEF t
<1> QED
  BY <1>3, <1>4, BecomeEffect

\* An answer goes to the partner, whose negotiation it ends; the next one
\* begins at once, and the partner comes first.
LEMMA AnswerEffect ==
    ASSUME IInv, NEW c \in Conns, OnAnswer(c), NEW p, p = partner[c], p \in active
    PROVE  /\ UNCHANGED <<live, partner, offers, answers, failed>>
           /\ \/ /\ p \in wants /\ active' = active /\ wants' = wants \ {p}
                 /\ out' = [Quiet EXCEPT ![p] = Append(Append(<<>>, "answer"), "create_offer")]
              \/ /\ c \in wants /\ active' = (active \ {p}) \cup {c} /\ wants' = wants \ {c}
                 /\ out' = [Quiet EXCEPT ![p] = Append(<<>>, "answer"),
                                         ![c] = Append(<<>>, "create_offer")]
              \/ /\ p \notin wants /\ c \notin wants /\ active' = active \ {p} /\ wants' = wants
                 /\ out' = [Quiet EXCEPT ![p] = Append(<<>>, "answer")]
<1> DEFINE said == [Quiet EXCEPT ![p] = Append(<<>>, "answer")]
           asserted == BoostAssert(Send(State, p, "answer"), p \in State.active, "send_answer:46")
           released == [asserted EXCEPT !.active = @ \ {p}]
           ended == Negotiate(released, p)
           t == SendAnswer(State, p)
<1>1. /\ Good(State) /\ c \in live /\ p # None /\ p \in live /\ p \in Conns /\ partner[p] = c
      /\ c # p /\ c \notin active /\ c # None
  <2>1. Good(State) /\ c \in live
    BY StateGood DEF OnAnswer, Handles
  <2>2. p # None /\ p \in live /\ p \in Conns
    BY NoneAssumption DEF IInv, ServerTypeOK
  <2>3. partner[p] = c /\ c # p
    BY <2>1, <2>2, PartnersPoint
  <2> QED
    BY <2>1, <2>2, <2>3, NoneAssumption DEF IInv, ServerTypeOK, OneNegotiator
<1>2. Become(t)
  <2>1. Partner(State, c) = p
    BY <1>1, PartnerLemma, StateIs DEF Good
  <2> QED
    BY <1>1, <2>1 DEF OnAnswer
<1>3. /\ Typed(released) /\ released.live = live /\ released.partner = partner
      /\ released.wants = wants /\ released.active = active \ {p}
      /\ released.offers = offers /\ released.answers = answers
      /\ released.out = said /\ released.failed = {}
  <2>1. asserted = Send(State, p, "answer")
    BY StateIs DEF BoostAssert
  <2>2. Typed(asserted)
    BY <1>1, <2>1, SendLemma DEF Good, Messages
  <2>3. /\ asserted.live = live /\ asserted.partner = partner /\ asserted.wants = wants
        /\ asserted.active = active /\ asserted.offers = offers /\ asserted.answers = answers
        /\ asserted.out = said /\ asserted.failed = {}
    <3>1. [Quiet EXCEPT ![p] = Append(@, "answer")] = said
      BY <1>1 DEF Quiet
    <3>2. Send(State, p, "answer") = [State EXCEPT !.out = [Quiet EXCEPT ![p] = Append(@, "answer")]]
      BY DEF Send, State
    <3>3. asserted = [State EXCEPT !.out = said]
      BY <2>1, <3>1, <3>2
    <3> HIDE DEF said, asserted
    <3> QED
      BY <3>3 DEF State
  <2> HIDE DEF asserted
  <2> QED
    BY <2>2, <2>3 DEF Typed, States
<1>4. SendAnswer(State, p) = IF p \in ended.active THEN ended
                             ELSE IF Partner(ended, p) = None
                                  THEN BoostAssert(ended, FALSE, "send_answer:52")
                             ELSE Negotiate(ended, Partner(ended, p))
  BY DEF SendAnswer
<1>5. said[p] = Append(<<>>, "answer") /\ said[c] = <<>>
  BY <1>1 DEF Quiet
<1> HIDE DEF released, said
<1>6. Partner(released, p) = c
  BY <1>1, <1>3 DEF Partner
<1>7. IF p \in wants THEN Begun(released, ended, p) ELSE ended = released
  BY <1>1, <1>3, <1>6, NegotiateEffect
<1> HIDE DEF ended, t
<1>8. CASE p \in wants
  <2>1. t = ended /\ Begun(released, ended, p)
    BY <1>4, <1>7, <1>8 DEF Begun, t
  <2>2. t.failed = {}
    BY <1>3, <2>1 DEF Begun
  <2>3. [said EXCEPT ![p] = Append(@, "create_offer")]
          = [Quiet EXCEPT ![p] = Append(Append(<<>>, "answer"), "create_offer")]
    BY <1>1 DEF said, Quiet
  <2>4. (active \ {p}) \cup {p} = active
    OBVIOUS
  <2> QED
    BY <1>2, <1>3, <1>8, <2>1, <2>2, <2>3, <2>4, BecomeEffect DEF Begun
<1>9. CASE p \notin wants
  <2>1. t = Negotiate(released, c)
    BY <1>1, <1>3, <1>4, <1>6, <1>7, <1>9 DEF t
  <2>2. Partner(released, c) = p
    BY <1>1, <1>3 DEF Partner
  <2>3. IF c \in wants THEN Begun(released, t, c) ELSE t = released
    BY <1>1, <1>3, <2>1, <2>2, NegotiateEffect
  <2>4. t.failed = {}
    BY <1>3, <2>3 DEF Begun
  <2>5. [said EXCEPT ![c] = Append(@, "create_offer")]
          = [Quiet EXCEPT ![p] = Append(<<>>, "answer"), ![c] = Append(<<>>, "create_offer")]
    BY <1>1, <1>5 DEF said
  <2>6. /\ live' = t.live /\ partner' = t.partner /\ wants' = t.wants
        /\ active' = t.active /\ offers' = t.offers /\ answers' = t.answers
        /\ out' = t.out /\ failed' = failed
    BY <1>2, <2>4, BecomeEffect
  <2> QED
    BY <1>3, <1>9, <2>3, <2>5, <2>6 DEF Begun, said
<1> QED
  BY <1>8, <1>9

\* Nothing but candidates.
OnlyCandidates(w) == \A i \in 1..Len(w) : w[i] = "ice_candidate"

\* Candidates behind nothing are only candidates.
LEMMA CandidatesLemma ==
    ASSUME NEW n \in Nat PROVE OnlyCandidates(<<>> \o [i \in 1..n |-> "ice_candidate"])
<1> DEFINE v == [i \in 1..n |-> "ice_candidate"]
<1>1. v \in Seq(Messages) /\ Len(v) = n /\ \A i \in 1..n : v[i] = "ice_candidate"
  BY DEF Messages
<1> HIDE DEF v
<1>2. <<>> \o v = v
  BY <1>1
<1> QED
  BY <1>1, <1>2 DEF OnlyCandidates, v

\* A candidate goes to the partner, or into the cache.
LEMMA IceEffect ==
    ASSUME IInv, NEW c \in Conns, OnIceCandidate(c)
    PROVE  /\ UNCHANGED <<live, partner, wants, active, offers, answers, failed>>
           /\ \A d \in Conns : OnlyCandidates(out'[d])
<1> DEFINE p == Partner(State, c)
           sends == SendIce(State, p, 1)
           keeps == [State EXCEPT !.cands[c] = @ + 1]
<1>1. Become(IF p # None THEN sends ELSE keeps) /\ Good(State) /\ c \in live
  BY StateGood DEF OnIceCandidate, Handles
<1>2. \A d \in Conns : OnlyCandidates(Quiet[d])
  BY DEF Quiet, OnlyCandidates
<1>3. CASE p # None
  <2>1. /\ sends.live = live /\ sends.partner = partner /\ sends.wants = wants
        /\ sends.active = active /\ sends.offers = offers /\ sends.answers = answers
        /\ sends.failed = {}
        /\ sends.out = [Quiet EXCEPT ![p] = @ \o [i \in 1..1 |-> "ice_candidate"]]
    BY DEF SendIce, State
  <2>2. p \in Conns
    BY <1>1, <1>3, PartnerLemma, StateIs DEF Good, IInv, ServerTypeOK
  <2>3. OnlyCandidates(<<>> \o [i \in 1..1 |-> "ice_candidate"])
    BY CandidatesLemma
  <2> HIDE DEF sends, p
  <2>4. \A d \in Conns : OnlyCandidates(sends.out[d])
    BY <1>2, <2>1, <2>2, <2>3 DEF Quiet
  <2> QED
    BY <1>1, <1>3, <2>1, <2>4, BecomeEffect
<1>4. CASE p = None
  <2>1. /\ keeps.live = live /\ keeps.partner = partner /\ keeps.wants = wants
        /\ keeps.active = active /\ keeps.offers = offers /\ keeps.answers = answers
        /\ keeps.failed = {} /\ keeps.out = Quiet
    BY DEF State
  <2> HIDE DEF keeps, p
  <2> QED
    BY <1>1, <1>2, <1>4, <2>1, BecomeEffect
<1> QED
  BY <1>3, <1>4

\* A state in which nothing was said but candidates.
SaysOnlyCandidates(s) == \A d \in Conns : OnlyCandidates(s.out[d])

\* Candidates may follow.
LEMMA SendIceEffect ==
    ASSUME NEW s, Typed(s), SaysOnlyCandidates(s), NEW d \in Conns, NEW n \in Nat
    PROVE  SaysOnlyCandidates(SendIce(s, d, n)) /\ SendIce(s, d, n).failed = s.failed
<1> DEFINE ice == [i \in 1..n |-> "ice_candidate"]
<1>1. /\ SendIce(s, d, n).failed = s.failed
      /\ SendIce(s, d, n).out = [s.out EXCEPT ![d] = @ \o ice]
      /\ s.out \in [Conns -> Seq(Messages)]
  BY DEF SendIce, Typed, States
<1>2. ice \in Seq(Messages) /\ Len(ice) = n /\ \A i \in 1..n : ice[i] = "ice_candidate"
  BY DEF Messages
<1>3. \A q \in Seq(Messages) : OnlyCandidates(q) => OnlyCandidates(q \o ice)
  <2> HIDE DEF ice
  <2> QED
    BY <1>2 DEF OnlyCandidates
<1> HIDE DEF ice
<1>4. OnlyCandidates(s.out[d] \o ice)
  BY <1>1, <1>3 DEF SaysOnlyCandidates
<1> QED
  BY <1>1, <1>4 DEF SaysOnlyCandidates

\* set_partner() of a device that has nothing to say fails nowhere.
LEMMA SilentSetPartnerEffect ==
    ASSUME NEW s, Typed(s), NEW d \in s.live, NEW p \in s.live,
           d \notin s.wants, d \notin s.offers, d \notin s.answers, s.cands[d] = 0,
           SaysOnlyCandidates(s), NEW t, t = SetPartner(s, d, p)
    PROVE  SaysOnlyCandidates(t) /\ t.failed = s.failed
<1> DEFINE b    == [s EXCEPT !.partner[d] = p]
           iced == SendIce(b, p, 0)
           ice  == [iced EXCEPT !.cands[d] = 0]
           r    == [ice EXCEPT !.offers = @ \ {d}, !.answers = @ \ {d}]
<1>0. p \in Conns /\ d \in Conns /\ p # None
  BY NoneAssumption DEF Typed, States
<1>1. /\ Typed(b) /\ b.live = s.live /\ b.partner[d] = p
      /\ b.wants = s.wants /\ b.offers = s.offers /\ b.answers = s.answers
      /\ b.cands = s.cands /\ b.out = s.out /\ b.failed = s.failed
  BY <1>0 DEF Typed, States, ConnsOrNone
<1>2. Partner(b, d) = p /\ SaysOnlyCandidates(b)
  BY <1>1 DEF Partner, SaysOnlyCandidates
<1> HIDE DEF b
<1>3. /\ Typed(iced) /\ iced.wants = b.wants /\ iced.offers = b.offers /\ iced.answers = b.answers
  BY <1>0, <1>1, SendIceLemma
<1>4. SaysOnlyCandidates(iced) /\ iced.failed = b.failed
  BY <1>0, <1>1, <1>2, SendIceEffect
<1> HIDE DEF iced
<1>5. /\ ice.wants = iced.wants /\ ice.offers = iced.offers /\ ice.answers = iced.answers
      /\ ice.out = iced.out /\ ice.failed = iced.failed
  BY <1>3 DEF Typed, States
<1>6. SendCache(b, d) = r
  BY <1>1, <1>2, <1>3, <1>5 DEF SendCache, ice, iced
<1> HIDE DEF ice
<1>7. r.wants = ice.wants /\ r.out = ice.out /\ r.failed = ice.failed
  OBVIOUS
<1> HIDE DEF r
<1>8. t = r
  BY <1>1, <1>3, <1>5, <1>6, <1>7 DEF SetPartner, Negotiate, b
<1> QED
  BY <1>1, <1>4, <1>5, <1>7, <1>8 DEF SaysOnlyCandidates

\* A device that cached candidates only sends them.
LEMMA SendCacheEffect ==
    ASSUME NEW s, Typed(s), NEW d \in s.live, NEW p, p = Partner(s, d), p \in Conns,
           SaysOnlyCandidates(s), d \notin s.offers, d \notin s.answers,
           NEW t, t = SendCache(s, d)
    PROVE  /\ SaysOnlyCandidates(t) /\ t.failed = s.failed /\ t.live = s.live
           /\ t.partner = s.partner /\ t.wants = s.wants /\ t.active = s.active
           /\ t.offers = s.offers \ {d} /\ t.answers = s.answers \ {d}
<1> DEFINE n    == s.cands[d]
           iced == SendIce(s, p, n)
           ice  == [iced EXCEPT !.cands[d] = 0]
           r    == [ice EXCEPT !.offers = @ \ {d}, !.answers = @ \ {d}]
<1>0. n \in Nat
  BY BoundAssumption DEF Typed, States
<1> HIDE DEF n
<1>1. /\ Typed(iced) /\ SamePairs(s, iced) /\ iced.active = s.active /\ iced.wants = s.wants
      /\ iced.offers = s.offers /\ iced.answers = s.answers
  BY <1>0, SendIceLemma
<1>2. SaysOnlyCandidates(iced) /\ iced.failed = s.failed
  BY <1>0, SendIceEffect
<1> HIDE DEF iced
<1>3. /\ ice.live = iced.live /\ ice.partner = iced.partner /\ ice.active = iced.active
      /\ ice.wants = iced.wants /\ ice.offers = iced.offers /\ ice.answers = iced.answers
      /\ ice.out = iced.out /\ ice.failed = iced.failed
  BY <1>1 DEF Typed, States
<1>4. t = r
  BY <1>1, <1>3 DEF SendCache, ice, iced, n
<1>5. /\ r.live = ice.live /\ r.partner = ice.partner /\ r.active = ice.active
      /\ r.wants = ice.wants /\ r.offers = ice.offers \ {d} /\ r.answers = ice.answers \ {d}
      /\ r.out = ice.out /\ r.failed = ice.failed
  BY <1>1 DEF Typed, States
<1> HIDE DEF ice, r
<1> QED
  BY <1>1, <1>2, <1>3, <1>4, <1>5 DEF SamePairs, SaysOnlyCandidates

\* A registration that replaces nobody makes a device; the partner it finds begins
\* what it wished for, and is told after the candidates.
LEMMA RegisterEffect ==
    ASSUME IInv, NEW c \in Conns, NEW k \in Keys, NEW t \in Tokens, Register(c, k, t),
           offers = {}, answers = {}, OldOf(k, t) = None,
           NEW other, other = OtherOf(k, t)
    PROVE  /\ live' = live \cup {c} /\ UNCHANGED <<conn, offers, answers, failed>>
           /\ regToken' = [regToken EXCEPT ![c] = t]
           /\ \A d \in Conns \ {other} : OnlyCandidates(out'[d])
           /\ \/ /\ active' = active /\ wants' = wants
                 /\ \A d \in Conns : OnlyCandidates(out'[d])
              \/ /\ other \in live /\ other \notin active
                 /\ active' = active \cup {other} /\ wants' = wants \ {other}
                 /\ \E v \in Seq(Messages) :
                       OnlyCandidates(v) /\ out'[other] = Append(v, "create_offer")
<1> DEFINE old     == OldOf(k, t)
           checked == Checked(c, k, t)
           new     == NewDevice(State, c)
           paired  == IF other = None THEN checked
                      ELSE SetPartner(SetPartner(checked, c, other), other, c)
<1>1. /\ c \notin live /\ Become(paired)
      /\ ~Aborts(paired) => /\ regToken' = [regToken EXCEPT ![c] = t]
                            /\ conn' = [x \in Conns |-> IF x = old THEN "closed" ELSE conn[x]]
  BY DEF Register, Checked, OldOf, OtherOf
<1>2. /\ old = None /\ other \in live \cup {None} /\ c # other /\ c # None
      /\ other # None => regToken[other] # t
      /\ live \subseteq Conns /\ active \subseteq live /\ wants \subseteq live
  BY <1>1, SlotsLemma DEF IInv, ServerTypeOK
<1>3. checked = new
  <2>1. SlotOf(k, t) \in Index
    BY RegisteredSlot
  <2>2. \E i \in Index : slot[k][i] = None \/ HasToken(k, i, t)
    BY <1>2, <2>1 DEF OldOf
  <2> QED
    BY <1>2, <2>2 DEF Checked, BoostAssert
<1>4. /\ Typed(checked) /\ checked.live = live \cup {c} /\ checked.active = active
      /\ checked.wants = wants /\ checked.offers = offers /\ checked.answers = answers
      /\ checked.out = Quiet /\ Fresh(checked, c)
  BY <1>1, <1>3, NewLemma
<1>5. checked.failed = {}
  BY <1>3 DEF NewDevice, State
<1>6. SaysOnlyCandidates(checked)
  BY <1>4 DEF SaysOnlyCandidates, Quiet, OnlyCandidates
<1>7. Apart(checked, c, other)
  BY <1>1, ApartLemma
<1> HIDE DEF old, new, checked
<1>8. ASSUME paired.failed = {}
      PROVE  /\ live' = paired.live /\ wants' = paired.wants /\ active' = paired.active
             /\ offers' = paired.offers /\ answers' = paired.answers /\ out' = paired.out
             /\ failed' = failed /\ conn' = conn /\ regToken' = [regToken EXCEPT ![c] = t]
  <2>1. ~Aborts(paired)
    BY <1>8 DEF Aborts
  <2>2. \A x \in Conns : x # old
    BY <1>2, NoneAssumption
  <2>3. conn \in [Conns -> {"idle", "open", "closed"}]
    BY DEF IInv, ServerTypeOK
  <2>4. conn' = conn
    BY <1>1, <2>1, <2>2, <2>3
  <2> HIDE DEF paired
  <2> QED
    BY <1>1, <1>8, <2>1, <2>4, BecomeEffect
<1>9. CASE other = None
  <2>1. paired = checked
    BY <1>9
  <2> HIDE DEF paired
  <2> QED
    BY <1>4, <1>5, <1>6, <1>8, <2>1 DEF SaysOnlyCandidates
<1>10. CASE other # None
  <2> DEFINE first == SetPartner(checked, c, other)
             b == Completed(checked, c, other)
             r == SendCache(b, other)
  <2>1. paired = Negotiate(r, other)
    BY <1>10 DEF SetPartner, Completed
  <2>2. /\ c \in checked.live /\ other \in checked.live /\ other \in live /\ c # other
        /\ c \notin checked.active /\ other \in Conns /\ c \in Conns
    BY <1>1, <1>2, <1>4, <1>10
  <2>3. SaysOnlyCandidates(first) /\ first.failed = {}
    BY <1>4, <1>5, <1>6, <2>2, SilentSetPartnerEffect DEF Fresh
  <2>4. Carries(checked, first) /\ Typed(first)
    BY <1>4, <2>2, SilentSetPartner, SilentSetPartnerFlow DEF Fresh
  <2>5. /\ b.out = first.out /\ b.failed = first.failed /\ b.wants = first.wants
        /\ b.offers = first.offers /\ b.answers = first.answers
    <3> HIDE DEF first
    <3>1. b = [first EXCEPT !.partner[other] = c]
      BY DEF Completed, first
    <3> HIDE DEF b
    <3> QED
      BY <2>4, <3>1 DEF Typed, States
  <2>6. /\ Good(b) /\ b.live = checked.live /\ b.active = checked.active
        /\ \A d \in Conns : b.partner[d] = IF d = c THEN other
                                        ELSE IF d = other THEN c ELSE checked.partner[d]
    BY <1>4, <1>7, <2>2, CompletedLemma DEF Fresh
  <2> HIDE DEF first, b
  <2>7. Partner(b, other) = c
    BY <2>2, <2>6 DEF Partner
  <2>8. b.wants = wants /\ b.offers = {} /\ b.answers = {} /\ SaysOnlyCandidates(b) /\ b.failed = {}
    BY <1>4, <2>3, <2>4, <2>5 DEF Carries, SaysOnlyCandidates
  <2>9. /\ SaysOnlyCandidates(r) /\ r.failed = {} /\ r.live = b.live
        /\ r.partner = b.partner /\ r.wants = wants /\ r.active = b.active
        /\ r.offers = {} /\ r.answers = {}
    <3>1. Typed(b) /\ other \in b.live
      BY <2>2, <2>6 DEF Good
    <3> QED
      BY <2>2, <2>7, <2>8, <3>1, SendCacheEffect
  <2>10. Typed(r)
    <3>1. b.partner[other] # None /\ other \in b.live
      BY <1>2, <2>2, <2>6
    <3> QED
      BY <2>6, <3>1, SendCacheLemma DEF Good
  <2> HIDE DEF r
  <2>11. Partner(r, other) = c /\ other \in r.live
    BY <2>2, <2>6, <2>7, <2>9 DEF Partner
  <2>12. IF other \in r.wants /\ other \notin r.active /\ c # None /\ c \notin r.active
         THEN Begun(r, paired, other) ELSE paired = r
    BY <2>1, <2>10, <2>11, NegotiateEffect
  <2> HIDE DEF paired
  <2>13. r.live = live \cup {c} /\ r.active = active
    BY <1>4, <2>6, <2>9
  <2>14. CASE paired = r
    BY <1>8, <2>9, <2>13, <2>14 DEF SaysOnlyCandidates
  <2>15. CASE Begun(r, paired, other) /\ other \notin r.active
    <3>1. r.out \in [Conns -> Seq(Messages)]
      BY <2>10 DEF Typed, States
    <3>2. /\ paired.out = [r.out EXCEPT ![other] = Append(@, "create_offer")]
          /\ paired.active = active \cup {other} /\ paired.wants = wants \ {other}
          /\ paired.live = live \cup {c} /\ paired.failed = {}
          /\ paired.offers = {} /\ paired.answers = {}
      BY <2>9, <2>13, <2>15 DEF Begun
    <3>3. /\ \A d \in Conns \ {other} : OnlyCandidates(paired.out[d])
          /\ OnlyCandidates(r.out[other]) /\ r.out[other] \in Seq(Messages)
          /\ paired.out[other] = Append(r.out[other], "create_offer")
      BY <2>2, <2>9, <3>1, <3>2 DEF SaysOnlyCandidates
    <3> QED
      BY <1>8, <2>2, <2>13, <2>15, <3>2, <3>3
  <2> QED
    BY <2>12, <2>14, <2>15
<1> QED
  BY <1>9, <1>10

-----------------------------------------------------------------------------
(* The theorems                                                            *)

\* The invariant holds in every state of the server.
LEMMA Invariant == ServerSpec => []IInv
BY InitLemma, NextLemma, PTL DEF ServerSpec

\* Every variable of the server keeps its type, whatever the clients send.
THEOREM TypeCorrect == ServerSpec => []ServerTypeOK
<1>1. IInv => ServerTypeOK
  BY DEF IInv
<1> QED
  BY <1>1, Invariant, PTL

\* registration_handler always finds the entry of a device that closes: what is
\* registered is what exists, one slot each, for any number of users.
THEOREM RegistrySound == ServerSpec => []RegistryHoldsTheLive
<1>1. IInv => RegistryHoldsTheLive
  BY DEF IInv
<1> QED
  BY <1>1, Invariant, PTL

\* Also after any sequence of reconnects, and when a third user takes a slot,
\* the two devices of a key are two users.
THEOREM TokensSound == ServerSpec => []TokensDiffer
<1>1. IInv => TokensDiffer
  BY DEF IInv
<1> QED
  BY <1>1, Invariant, PTL

\* The weak pointers of device always mirror the registry.
THEOREM PairingSound == ServerSpec => []PartnersAreMutual
<1>1. IInv => PartnersAreMutual
  BY DEF IInv
<1> QED
  BY <1>1, Invariant, PTL

\* Both: a pair is two users that point at each other, in any order of
\* registrations and closed connections.
THEOREM PairsSound == ServerSpec => []PairsAreSound
<1>1. IInv => PairsAreSound
  BY DEF IInv, PairsAreSound
<1> QED
  BY <1>1, Invariant, PTL

\* device::negotiate and its callers never let both ends of a pair negotiate.
THEOREM ArbitrationSound == ServerSpec => []OneNegotiator
<1>1. IInv => OneNegotiator
  BY DEF IInv
<1> QED
  BY <1>1, Invariant, PTL

\* A wish to negotiate never lies idle beside a partner, nor does a cached
\* message: device::negotiate, send_answer, send_cache and reset_partner leave
\* nothing behind, in any order of the clients' messages and reconnects.
THEOREM NothingIdle == ServerSpec => []NothingLiesIdle
<1>1. ServerInit => NothingLiesIdle
  BY DEF ServerInit, NothingLiesIdle, NoWishIdle, CachesOnlyAlone
<1>2. IInv /\ NothingLiesIdle /\ [ServerNext]_serverVars => NothingLiesIdle'
  BY SmoothNext DEF Smooth
<1> QED
  BY <1>1, <1>2, Invariant, PTL DEF ServerSpec

\* A device that stays forgets a wish or a running negotiation only for the
\* answer, also when its partner is replaced or goes (device::reset_partner).
THEOREM NegotiationsSurvive == ServerSpec => NegotiationSurvives
<1>1. IInv /\ NothingLiesIdle /\ [ServerNext]_serverVars => WishesSurvive
  BY SmoothNext DEF Smooth
<1> QED
  BY <1>1, Invariant, NothingIdle, PTL DEF ServerSpec, NegotiationSurvives, WishesSurvive

\* What a device cached leaves the cache only for the partner that comes, the
\* candidates first (device::send_cache).
THEOREM CachesDelivered == ServerSpec => CachedIsDelivered
<1>1. IInv /\ NothingLiesIdle /\ [ServerNext]_serverVars => CacheArrives
  BY SmoothNext DEF Smooth
<1> QED
  BY <1>1, Invariant, NothingIdle, PTL DEF ServerSpec, CachedIsDelivered, CacheArrives

=============================================================================
