----------------------------- MODULE RequestGate ------------------------------
(***************************************************************************)
(* One client of the server and the way its writes reach the database: the *)
(* sign-in and the session (routes/api.ts, auth/session.ts, the client's   *)
(* lib/session.ts), the key each client keeps for a write whose answer it  *)
(* has not seen (lib/idempotency.ts and lib/api.ts of the mini program and *)
(* of the web workbench), and the gate that runs a write once per key      *)
(* (domain/idempotency.ts, db/client.ts).                                  *)
(*                                                                         *)
(* The client is the mini program, its H5 build or the web workbench.  A   *)
(* request or its answer may be lost, may arrive after the client stopped  *)
(* waiting, or may find the session ended; the server and the client may   *)
(* stop at any moment.  A lost request is one that never arrives.          *)
(*                                                                         *)
(* A write is a member of Intents: method, path and data.  SlotOf gives    *)
(* the entry of the client's storage it uses; two writes with one          *)
(* fingerprint share an entry.  What a write does is its business          *)
(* component's; here it commits, is refused or fails.                      *)
(***************************************************************************)
EXTENDS Naturals

CONSTANTS
    Intents,    \* writes the user may ask for
    Slots,      \* entries of the client's storage
    SlotOf,
    Keys,       \* bound: idempotency keys the client can draw
    Sessions,   \* bound: sign-ins
    Requests,   \* bound: requests sent
    MaxMishaps, \* bound: losses, stops, aged keys
    None

ASSUME GateAssumption ==
    /\ SlotOf \in [Intents -> Slots]
    /\ MaxMishaps \in Nat
    /\ None \notin Keys \cup Sessions \cup Intents \cup Requests

VARIABLES
    kind,     \* "miniapp", "h5" or "web"
    view,     \* what the client shows: the signed-in pages, or the form and why
    holder,   \* the session whose token or cookie the client holds
    pending,  \* the key kept for each entry of the client's storage
    why,      \* history: why a key is no longer kept
    session,  \* sessions: revoked_at and expires_at
    guests,   \* sessions of users the mini program is not open to (role)
    req,      \* requests, wherever they are
    record,   \* idempotency_records: the request whose response is stored
    mishaps

clientVars == <<view, holder, pending, why>>
gateVars == <<kind, clientVars, session, guests, req, record, mishaps>>

Kinds == {"miniapp", "h5", "web"}
Views == {"home", "out", "guest", "unknown"}
Answers == {"none", "ok", "refused", "unauthorized", "failed"}
Reasons == {"unused", "kept", "told", "refused", "unauthorized",
            "signed_out", "aged", "closed"}

NoRequest == [at |-> "new", client |-> "idle", intent |-> None, key |-> None,
              session |-> None, answer |-> "none", of |-> None]

Live == {s \in Sessions : session[s] = "live"}

\* The next key, session and request: any that was not used before.
FreshKey == CHOOSE k \in Keys : why[k] = "unused"
FreshSession == CHOOSE s \in Sessions : session[s] = "none"
FreshRequest == CHOOSE r \in Requests : req[r].at = "new"

NoPending == [e \in Slots |-> None]

------------------------------------------------------------------------------
GateInit ==
    /\ kind \in Kinds
    /\ view = "out"
    /\ holder = None
    /\ pending = NoPending
    /\ why = [k \in Keys |-> "unused"]
    /\ session = [s \in Sessions |-> "none"]
    /\ guests = {}
    /\ req = [r \in Requests |-> NoRequest]
    /\ record = [k \in Keys |-> None]
    /\ mishaps = 0

Mishap == mishaps < MaxMishaps /\ mishaps' = mishaps + 1
MishapUnless(b) == IF b THEN UNCHANGED mishaps ELSE Mishap

------------------------------------------------------------------------------
(* The client's storage.                                                   *)

\* Why each key is no longer kept once all of them are forgotten.
Forgotten(reason) == [k \in Keys |-> IF why[k] = "kept" THEN reason ELSE why[k]]

\* clearClientSession: the token and every key.
ClearClient(reason) ==
    /\ holder' = IF kind = "miniapp" THEN None ELSE holder
    /\ pending' = NoPending
    /\ why' = Forgotten(reason)

CompleteAnyKey(r, reason) ==
    /\ pending' = [pending EXCEPT ![SlotOf[req[r].intent]] = None]
    /\ why' = [why EXCEPT ![req[r].key] = IF @ = "kept" THEN reason ELSE @]

\* completeIdempotentRequest: only if the entry still holds this very key.
Complete(r, reason) ==
    LET e == SlotOf[req[r].intent] IN
    IF pending[e] = req[r].key
    THEN /\ pending' = [pending EXCEPT ![e] = None]
         /\ why' = [why EXCEPT ![req[r].key] = reason]
    ELSE UNCHANGED <<pending, why>>

------------------------------------------------------------------------------
(* Signing in and out, and the end of a session.                           *)

\* What follows an answer to the sign-in: the mini program throws after it
\* took the session of a user who is no consumer, and the form stays.
ViewAfterSignIn(received, consumer, opened) ==
    IF received /\ ~consumer THEN "guest"
    ELSE IF received /\ opened THEN "home" ELSE "unknown"

\* The password is right.  The answer may be lost, with its cookie or without,
\* and the home page may not open; the session stays.  The workbench is open
\* to every role, so that all its users count as consumers here.
SignIn ==
    /\ view # "home"
    /\ \E s \in Sessions : session[s] = "none"
    /\ \E received, consumer, opened \in BOOLEAN : LET s == FreshSession IN
        /\ kind = "web" => consumer
        /\ view' = ViewAfterSignIn(received, consumer, opened)
        /\ MishapUnless(view' = "home")
        /\ session' = [session EXCEPT ![s] = "live"]
        /\ guests' = IF consumer THEN guests ELSE guests \cup {s}
        /\ holder' \in IF received THEN {s}
                       ELSE IF kind = "miniapp" THEN {holder} ELSE {holder, s}
    /\ UNCHANGED <<kind, pending, why, req, record>>

\* The web workbench shows the sign-in form whatever became of the request.
SignOutWeb(reached, answered) ==
    /\ view' = IF answered THEN "out" ELSE "unknown"
    /\ holder' = IF answered /\ holder \in Live THEN None ELSE holder
    /\ UNCHANGED <<pending, why>>

SignOutForgetting(reached, answered) ==
    /\ ClearClient("signed_out")
    /\ view' = "out"

\* The mini program forgets its token in any case; its H5 build waits for
\* the server to clear the cookie.
SignOutMini(reached, answered) ==
    IF kind = "h5" /\ ~answered
    THEN UNCHANGED clientVars
    ELSE /\ view' = "out"
         /\ pending' = NoPending
         /\ why' = Forgotten("signed_out")
         /\ holder' = IF kind = "miniapp" \/ holder \in Live THEN None ELSE holder

\* The DELETE of the session may not arrive, and its answer may be lost.
SignOut ==
    /\ view = "home"
    /\ \E reached, answered \in BOOLEAN :
        /\ answered => reached
        /\ MishapUnless(answered)
        /\ session' = IF reached /\ holder \in Live
                      THEN [session EXCEPT ![holder] = "revoked"] ELSE session
        /\ IF kind = "web" THEN SignOutWeb(reached, answered)
                           ELSE SignOutMini(reached, answered)
    /\ UNCHANGED <<kind, guests, req, record>>

\* Twenty-four hours after the sign-in; the browser then drops the cookie.
Expire(s) ==
    /\ session[s] = "live"
    /\ session' = [session EXCEPT ![s] = "expired"]
    /\ holder' = IF holder = s /\ kind # "miniapp" THEN None ELSE holder
    /\ UNCHANGED <<kind, view, pending, why, guests, req, record, mishaps>>

\* readMiniappSession: the mini program finds that its own token expired.
TokenExpired == kind = "miniapp" /\ holder # None /\ session[holder] = "expired"

\* The first page asks for the session, with what the client then holds.  Any
\* failure brings up the form, which says nothing of the session when the
\* answer was lost; the mini program without a token does not even ask.
Restore(answered) ==
    /\ ~answered => kind # "miniapp" \/ holder' # None
    /\ view' = IF ~answered THEN "unknown"
               ELSE IF holder' \notin Live THEN "out"
               ELSE IF holder' \in guests THEN "guest" ELSE "home"

\* The program is opened again: its storage is as it was, what was waiting
\* is gone, and the session is asked for, unless the H5 build is opened at
\* another page.  Closing the tab of the workbench ends its storage.
Reopen(closed) ==
    /\ Mishap
    /\ closed => kind = "web"
    /\ req' = [r \in Requests |-> IF req[r].client = "waiting"
                                  THEN [req[r] EXCEPT !.client = "gone", !.answer = "none"]
                                  ELSE req[r]]
    /\ IF closed
       THEN /\ pending' = NoPending
            /\ why' = Forgotten("closed")
            /\ UNCHANGED holder
       ELSE IF TokenExpired
       THEN ClearClient("unauthorized")
       ELSE UNCHANGED <<holder, pending, why>>
    /\ \/ \E answered \in BOOLEAN : Restore(answered)
       \/ kind = "h5" /\ view' = "home"
    /\ UNCHANGED <<kind, session, guests, record>>

------------------------------------------------------------------------------
(* A write, from the tap to the answer.                                    *)

\* The workbench and the mini program offer the key they kept, or a new one.
KeyFor(i) == IF pending[SlotOf[i]] # None THEN pending[SlotOf[i]] ELSE FreshKey

\* beginIdempotentRequest, then the header: an expired token clears the
\* session and every key, the one just taken included.
Begin(i) ==
    /\ view = "home"
    /\ \E r \in Requests : req[r].at = "new"
    /\ pending[SlotOf[i]] = None => \E k \in Keys : why[k] = "unused"
    /\ req' = [req EXCEPT ![FreshRequest] =
         [NoRequest EXCEPT !.at = "wire", !.client = "waiting", !.intent = i,
                           !.key = KeyFor(i),
                           !.session = IF TokenExpired THEN None ELSE holder]]
    /\ IF TokenExpired
       THEN /\ holder' = None
            /\ pending' = NoPending
            /\ why' = [Forgotten("unauthorized") EXCEPT ![KeyFor(i)] = "unauthorized"]
       ELSE /\ pending' = [pending EXCEPT ![SlotOf[i]] = KeyFor(i)]
            /\ why' = [why EXCEPT ![KeyFor(i)] = "kept"]
            /\ UNCHANGED holder
    /\ UNCHANGED <<kind, view, session, guests, record, mishaps>>

\* loadSession and the guards of the route: 401 without a session, 403 for
\* the wrong role.  A write they refuse for what it says is answered like one
\* the handler refuses (Abort).
Known(r) == req[r].session \in Live
Admitted(r) == Known(r) /\ req[r].session \notin guests

\* A request ends; its answer is of no use to a client that has gone.
Ended(q, answer, of) ==
    [q EXCEPT !.at = "over", !.session = None, !.of = of,
              !.answer = IF q.client = "waiting" THEN answer ELSE "none"]

Arrive(r) ==
    /\ req[r].at = "wire"
    /\ req' = [req EXCEPT ![r] =
         IF Admitted(r) THEN [@ EXCEPT !.at = "inside", !.session = None]
                        ELSE Ended(@, IF Known(r) THEN "refused" ELSE "unauthorized", None)]
    /\ UNCHANGED <<kind, clientVars, session, guests, record, mishaps>>

LockFree(r) ==
    \A q \in Requests : req[q].key = req[r].key => req[q].at # "locked"

\* pg_advisory_xact_lock: one transaction at a time for each key.
Lock(r) ==
    /\ req[r].at = "inside"
    /\ LockFree(r)
    /\ req' = [req EXCEPT ![r].at = "locked"]
    /\ UNCHANGED <<kind, clientVars, session, guests, record, mishaps>>

\* The key was used: the stored response if the payload is the same.
SamePayloadAlways(r) == TRUE

SamePayload(r) == req[record[req[r].key]].intent = req[r].intent

Replay(r) ==
    /\ req[r].at = "locked"
    /\ record[req[r].key] # None
    /\ req' = [req EXCEPT ![r] =
         IF SamePayload(r) THEN Ended(@, "ok", record[req[r].key])
                           ELSE Ended(@, "refused", None)]
    /\ UNCHANGED <<kind, clientVars, session, guests, record, mishaps>>

\* The business action and the record commit together.
Commit(r) ==
    /\ req[r].at = "locked"
    /\ record[req[r].key] = None
    /\ req' = [req EXCEPT ![r] = Ended(@, "ok", r)]
    /\ record' = [record EXCEPT ![req[r].key] = r]
    /\ UNCHANGED <<kind, clientVars, session, guests, mishaps>>

\* The business action throws: everything is rolled back, the record too.
\* An AppError is answered with its own code, anything else with 500.
Abort(r) ==
    /\ req[r].at = "locked"
    /\ record[req[r].key] = None
    /\ \E a \in {"refused", "failed"} :
        req' = [req EXCEPT ![r] = Ended(@, a, None)]
    /\ UNCHANGED <<kind, clientVars, session, guests, record, mishaps>>

\* The server stops: open transactions are rolled back and nobody answers.
Cut(q) == [q EXCEPT !.at = "over", !.session = None,
                    !.client = IF @ = "waiting" THEN "gone" ELSE @]

ServerStops ==
    /\ Mishap
    /\ \E r \in Requests : req[r].at \in {"inside", "locked"}
    /\ req' = [r \in Requests |-> IF req[r].at \in {"inside", "locked"}
                                  THEN Cut(req[r]) ELSE req[r]]
    /\ UNCHANGED <<kind, clientVars, session, guests, record>>

\* Fifteen seconds, or the network: the client stops waiting, keeps the key.
GiveUp(r) ==
    /\ Mishap
    /\ req[r].client = "waiting"
    /\ req' = [req EXCEPT ![r] = [@ EXCEPT !.client = "gone", !.answer = "none"]]
    /\ UNCHANGED <<kind, clientVars, session, guests, record>>

\* A 5xx may hide a committed write: the key stays for the next attempt.
Definite(answer) == answer \in {"ok", "refused", "unauthorized"}

ReasonFor(answer) == IF answer = "ok" THEN "told" ELSE answer

\* A key whose answer is definite is done with.
Settle(r) ==
    LET a == req[r].answer IN
    IF Definite(a) THEN Complete(r, ReasonFor(a)) ELSE UNCHANGED <<pending,
                                                                   why>>

Answered(r) ==
    /\ req[r].client = "waiting"
    /\ req[r].answer # "none"
    /\ req' = [req EXCEPT ![r] = [req[r] EXCEPT !.client = "answered",
                                   !.answer = IF req[r].answer = "ok" THEN "ok" ELSE "none"]]
    /\ UNCHANGED <<kind, session, guests, record>>

\* A 401 ends the session of the client, whichever session it was sent for,
\* and brings up the sign-in page, which asks for the session at once.
ReceiveMini(r) ==
    /\ kind # "web"
    /\ Answered(r)
    /\ IF req[r].answer = "unauthorized"
       THEN /\ ClearClient("unauthorized")
            /\ \E answered \in BOOLEAN : Restore(answered) /\ MishapUnless(answered)
       ELSE Settle(r) /\ UNCHANGED <<view, holder, mishaps>>

ReceiveWeb(r) ==
    /\ kind = "web"
    /\ Answered(r)
    /\ Settle(r)
    /\ UNCHANGED <<view, holder, mishaps>>

\* A key older than a day is no longer offered.
Age(e) ==
    /\ Mishap
    /\ pending[e] # None
    /\ why' = [why EXCEPT ![pending[e]] = "aged"]
    /\ pending' = [pending EXCEPT ![e] = None]
    /\ UNCHANGED <<kind, view, holder, session, guests, req, record>>

------------------------------------------------------------------------------
ServerStep(r) == Arrive(r) \/ Lock(r) \/ Replay(r) \/ Commit(r) \/ Abort(r)

GateNext ==
    \/ SignIn \/ SignOut \/ ServerStops
    \/ \E s \in Sessions : Expire(s)
    \/ \E closed \in BOOLEAN : Reopen(closed)
    \/ \E i \in Intents : Begin(i)
    \/ \E r \in Requests : ServerStep(r) \/ GiveUp(r) \/ ReceiveMini(r) \/ ReceiveWeb(r)
    \/ \E e \in Slots : Age(e)

GateSpec == GateInit /\ [][GateNext]_gateVars

------------------------------------------------------------------------------
Request == [at : {"new", "wire", "inside", "locked", "over"},
            client : {"idle", "waiting", "gone", "answered"},
            intent : Intents \cup {None}, key : Keys \cup {None},
            session : Sessions \cup {None}, answer : Answers,
            of : Requests \cup {None}]

GateTypeOK ==
    /\ kind \in Kinds
    /\ view \in Views
    /\ holder \in Sessions \cup {None}
    /\ pending \in [Slots -> Keys \cup {None}]
    /\ why \in [Keys -> Reasons]
    /\ session \in [Sessions -> {"none", "live", "revoked", "expired"}]
    /\ guests \subseteq Sessions
    /\ req \in [Requests -> Request]
    /\ record \in [Keys -> Requests \cup {None}]
    /\ mishaps \in 0..MaxMishaps

\* A key that left the client on a request and was neither answered nor
\* dropped for a reason the program names is still the key the next attempt
\* will use: no answer to an older request, no failure and no second tap
\* makes the client draw another (lib/idempotency.ts:46, lib/api.ts:42).
UnansweredKeyKept ==
    \A r \in Requests :
        req[r].at # "new" /\ why[req[r].key] = "kept"
            => pending[SlotOf[req[r].intent]] = req[r].key

\* A client that shows the form because it was told that it is signed out, by
\* the answer to its sign-out or to its question for the session, or because
\* it threw its token away, holds nothing that opens the account: it cannot
\* come back in without the password (lib/api.ts:76, pages/login/index.vue:26).
\* Only a lost answer, a home page that does not open and a user who is no
\* consumer leave the form over a live session.
SignedOutIsRevoked == view = "out" => holder \notin Live

\* However often a write is sent, and whoever else waits for its key, it
\* commits once for each key (domain/idempotency.ts:17).
OneCommitPerKey ==
    \A r, q \in Requests :
        req[r].of = r /\ req[q].of = q /\ req[r].key = req[q].key => r = q

GateSafe == GateTypeOK /\ OneCommitPerKey /\ UnansweredKeyKept

\* What a payer, a keeper or a merchant cares about: the write that happened
\* under each key, and the writes a client was told of.
Effect == [k \in Keys |-> IF record[k] = None THEN None ELSE req[record[k]].intent]
Told == {<<req[r].key, req[r].intent>> :
            r \in {q \in Requests : req[q].client = "answered" /\ req[q].answer = "ok"}}

\* The gate implements the promise of a key: the write under a key happens
\* once, for one payload, and a client is told only of writes that happened.
Once == INSTANCE EffectOnce WITH effect <- Effect, told <- Told

ImplementsOnce == Once!Spec

\* lib/api.ts:42 says that the key is kept "so an explicit retry cannot
\* create a second business object".  While nobody signs out, closes the
\* program or lets a day pass, and no attempt is refused by the handler, a
\* write the user was not told of is not made a second time.
RetryCannotDuplicate ==
    \A r, q \in Requests :
        LET mine == {r, q} IN
        /\ r # q
        /\ req[r].of = r /\ req[q].of = q
        /\ req[r].intent = req[q].intent
        => \E x \in mine : why[req[x].key] \in {"told", "refused", "signed_out",
                                               "aged", "closed"}
==============================================================================
