--------------------------- MODULE UserPagesProofs ---------------------------
(***************************************************************************)
(* What the steps that the two applications share do to the types of the   *)
(* requests and to what requests ask and claim.                            *)
(***************************************************************************)
EXTENDS UserPages, TLAPS

\* A request at work has a session, and a form comes with an email.
RequestInv ==
  \A r \in Request :
    pc[r] # "idle" => /\ session[r] \in SessionId
                      /\ page[r] \in Page
                      /\ page[r] \in Forms => email[r] \in User

PagesInv == PagesTypeOK /\ RequestInv

\* Initially no request is at work.
LEMMA PagesInitInv == PagesInit => PagesInv
  BY DEF PagesInit, PagesInv, PagesTypeOK, RequestInv, UsersInit, Stage

\* A request arrives.
LEMMA ReceiveInv ==
  ASSUME PagesInv, NEW r \in Request, NEW p \in Page, NEW s \in SessionId,
         NEW u \in Anyone, Receive(r, p, s, u), UNCHANGED users
  PROVE  PagesInv'
<1> USE DEF Receive, PagesInv, PagesTypeOK, Anyone
<1>1. PagesTypeOK'
  BY DEF Stage
<1>2. RequestInv'
  BY UserAssumption DEF RequestInv
<1> QED BY <1>1, <1>2

\* A handler returns.
LEMMA ReturnInv ==
  ASSUME PagesInv, NEW r \in Request, pc[r] # "idle",
         NEW view \in View, NEW user \in User \cup {Somebody, NULL}, Return(r, view, user),
         users' \in SUBSET User
  PROVE  PagesInv'
<1> USE DEF PagesInv, PagesTypeOK, Return, requestVars
<1>1. pc' \in [Request -> Stage]
  BY DEF Stage
<1>2. [view |-> view, user |-> user] \in Answer
  BY DEF Answer
<1>3. answer' \in [Request -> Answer \cup {NULL}]
  BY <1>2
<1>4. RequestInv'
  BY DEF RequestInv
<1> QED BY <1>1, <1>3, <1>4

\* A handler goes on.
LEMMA GoOnInv ==
  ASSUME PagesInv, NEW r \in Request, pc[r] # "idle", NEW stage \in Stage,
         GoOn(r, stage), users' \in SUBSET User
  PROVE  PagesInv'
  BY DEF PagesInv, PagesTypeOK, RequestInv, GoOn, requestVars

\* A request is over.
LEMMA FinishInv ==
  ASSUME PagesInv, NEW r \in Request, Finish(r), UNCHANGED users
  PROVE  PagesInv'
  BY DEF PagesInv, PagesTypeOK, RequestInv, Finish, Stage

\* No request moves.
LEMMA StillInv ==
  ASSUME PagesInv, UNCHANGED pageVars, users' \in SUBSET User
  PROVE  PagesInv'
  BY DEF PagesInv, PagesTypeOK, RequestInv, pageVars, requestVars

-----------------------------------------------------------------------------
(* Wishes and claims *)

Wish == [session : SessionId, kind : {"view", "signout", "signin"}, as : Anyone]

\* Initially nobody asks.
LEMMA InitAsks == PagesInit => /\ asked = [r \in Request |-> NULL]
                               /\ claim = [r \in Request |-> NULL]
  BY DEF PagesInit, asked, claim, AsksSession

\* A request asks for its wish, or is a registration and asks for nothing.
LEMMA ReceiveAsks ==
  ASSUME PagesInv, NEW r \in Request, NEW p \in Page, NEW s \in SessionId,
         NEW u \in Anyone, Receive(r, p, s, u)
  PROVE  /\ claim' = claim
         /\ \/ asked' = asked
            \/ /\ asked[r] = NULL
               /\ \E wish \in Wish : asked' = [asked EXCEPT ![r] = wish]
<1> DEFINE wish == [session |-> s, kind |-> KindOf(p), as |-> u]
<1>1. /\ pc[r] = "idle" /\ pc'[r] = "received"
      /\ page'[r] = p /\ session'[r] = s /\ email'[r] = u
      /\ UNCHANGED answer
      /\ \A q \in Request \ {r} : page'[q] = page[q] /\ session'[q] = session[q]
                                   /\ email'[q] = email[q] /\ pc'[q] = pc[q]
  BY DEF Receive, PagesInv, PagesTypeOK
<1>2. claim' = claim
  BY <1>1 DEF claim, AsksSession
<1>3. \A q \in Request \ {r} : asked'[q] = asked[q]
  BY <1>1 DEF asked, AsksSession, WishOf
<1>4. asked[r] = NULL
  BY <1>1 DEF asked, AsksSession
<1>5. CASE p = "doRegister"
  <2>1. asked'[r] = NULL
    BY <1>1, <1>5 DEF asked, AsksSession
  <2> QED
    BY <1>2, <1>3, <1>4, <2>1 DEF asked
<1>6. CASE p # "doRegister"
  <2>1. asked'[r] = wish
    BY <1>1, <1>6 DEF asked, AsksSession, WishOf
  <2>2. wish \in Wish
    BY DEF Wish, KindOf
  <2>3. asked' = [asked EXCEPT ![r] = wish]
    BY <1>3, <2>1 DEF asked
  <2> QED
    BY <1>2, <1>4, <2>2, <2>3
<1> QED
  BY <1>5, <1>6

\* What a request that is at work on its session has asked.
LEMMA AtWork ==
  ASSUME PagesInv, NEW r \in Request, pc[r] \notin {"idle", "answered"},
         page[r] # "doRegister"
  PROVE  /\ asked[r] \in Wish
         /\ asked[r].session = session[r]
         /\ asked[r].kind = KindOf(page[r])
         /\ asked[r].as = email[r]
         /\ claim[r] = NULL
         /\ session[r] \in SessionId
<1>1. asked[r] = WishOf(r) /\ claim[r] = NULL
  BY DEF asked, claim, AsksSession
<1>2. session[r] \in SessionId
  BY DEF PagesInv, RequestInv
<1>3. WishOf(r) \in Wish
  BY <1>2 DEF WishOf, KindOf, Wish, Anyone, PagesInv, PagesTypeOK
<1>4. /\ WishOf(r).session = session[r]
      /\ WishOf(r).kind = KindOf(page[r])
      /\ WishOf(r).as = email[r]
  BY DEF WishOf
<1> QED
  BY <1>1, <1>2, <1>3, <1>4

\* An answer is a claim.
LEMMA ReturnClaims ==
  ASSUME PagesInv, NEW r \in Request, pc[r] # "idle", page[r] # "doRegister",
         NEW view, NEW user, Return(r, view, user)
  PROVE  /\ asked' = asked
         /\ claim' = [claim EXCEPT ![r] =
                        Claim(page[r], email[r], [view |-> view, user |-> user])]
<1>1. asked' = asked
  BY DEF asked, AsksSession, WishOf, Return, requestVars, PagesInv, PagesTypeOK
<1>2. /\ pc'[r] = "answered"
      /\ answer'[r] = [view |-> view, user |-> user]
      /\ \A q \in Request \ {r} : pc'[q] = pc[q] /\ answer'[q] = answer[q]
  BY DEF Return, PagesInv, PagesTypeOK
<1>3. page' = page /\ email' = email
  BY DEF Return, requestVars
<1>4. ASSUME NEW q \in Request \ {r} PROVE claim'[q] = claim[q]
  BY <1>2, <1>3 DEF claim, AsksSession
<1>5. claim'[r] = Claim(page[r], email[r], [view |-> view, user |-> user])
  BY <1>2, <1>3 DEF claim, AsksSession
<1> QED
  BY <1>1, <1>4, <1>5 DEF claim

\* The answer to a registration is none, whatever it shows.
LEMMA RegistrationAsksNothing ==
  ASSUME PagesInv, NEW r \in Request, page[r] = "doRegister", pc[r] # "idle",
         NEW view, NEW user, NEW stage \in Stage \ {"idle"},
         Return(r, view, user) \/ GoOn(r, stage)
  PROVE  UNCHANGED <<asked, claim>>
<1> USE DEF Return, GoOn, requestVars, PagesInv, PagesTypeOK
<1>1. asked' = asked
  BY DEF asked, AsksSession, WishOf
<1>2. \A q \in Request \ {r} : pc'[q] = pc[q] /\ answer'[q] = answer[q]
  OBVIOUS
<1>3. claim' = claim
  BY <1>2 DEF claim, AsksSession
<1> QED
  BY <1>1, <1>3

\* A handler that goes on neither asks nor claims anything.
LEMMA GoOnAsksNothing ==
  ASSUME PagesInv, NEW r \in Request, pc[r] \notin {"idle", "answered"},
         NEW stage \in Stage \ {"idle", "answered"}, GoOn(r, stage)
  PROVE  UNCHANGED <<asked, claim>>
  BY DEF asked, claim, AsksSession, WishOf, GoOn, requestVars, PagesInv, PagesTypeOK

\* A request that is over asks and claims nothing any more.
LEMMA FinishAsksNothing ==
  ASSUME PagesInv, NEW r \in Request, Finish(r)
  PROVE  /\ asked' = [asked EXCEPT ![r] = NULL]
         /\ claim' = [claim EXCEPT ![r] = NULL]
<1>1. /\ pc'[r] = "idle"
      /\ \A q \in Request \ {r} : page'[q] = page[q] /\ session'[q] = session[q]
            /\ email'[q] = email[q] /\ answer'[q] = answer[q] /\ pc'[q] = pc[q]
  BY DEF Finish, PagesInv, PagesTypeOK
<1>2. asked' = [asked EXCEPT ![r] = NULL]
  BY <1>1 DEF asked, AsksSession, WishOf
<1>3. claim' = [claim EXCEPT ![r] = NULL]
  BY <1>1 DEF claim, AsksSession
<1> QED
  BY <1>2, <1>3

\* No request moves.
LEMMA StillAsks ==
  ASSUME UNCHANGED pageVars
  PROVE  UNCHANGED <<asked, claim>>
  BY DEF pageVars, requestVars, asked, claim, AsksSession, WishOf
==============================================================================
