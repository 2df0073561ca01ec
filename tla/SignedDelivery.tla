-------------------------- MODULE SignedDelivery ---------------------------
(***************************************************************************)
(* Signed requests between two pipelines: sign (core/src/webhooks/sign.ts) *)
(* at the sender, verify and verifyWebhook (verify.ts, verify-webhook.ts)  *)
(* and the handlers of source-webhook (handler.ts, webhook-source.ts) at   *)
(* the receiver.                                                           *)
(* Clocks are read in milliseconds and signed in seconds; secrets rotate   *)
(* while requests are on their way.                                        *)
(***************************************************************************)
EXTENDS Integers, SequencesExt

CONSTANTS
    Secrets,    \* in the order of rotation: 1..n
    Second,     \* clock units to a second
    Tolerance,  \* in clock units
    Skew,       \* the receiver's clock is ahead by 0..Skew, one value for good
    LastTime    \* bound

VARIABLES
    now,        \* the sender's clock
    ahead,      \* the receiver's clock is now + ahead
    secret,     \* the secret that is signed with
    held,       \* the secrets the receiver tries, newest first
    wire,       \* the request on its way, as a sequence
    answer      \* of the receiver: <<>> or <<record>>

vars == <<now, ahead, secret, held, wire, answer>>

\* HMAC, external: equal for equal secret, time and body only.
Hmac(s, t, body) == <<s, t, body>>

\* sign: the header t=...,v1=... of a body.
Sign(body, s, alg) ==
    LET t == now \div Second
    IN  [body |-> body, t |-> t, sigs |-> {[alg |-> alg, hex |-> Hmac(s, t, body)]},
         at |-> now, by |-> s, form |-> "good"]

Abs(n) == IF n < 0 THEN -n ELSE n

\* Both clocks are cut to seconds before they are compared.
Drift(m) ==
    LET seconds == (now + ahead) \div Second
    IN  Abs((seconds - m.t) * Second)

Matches(m, s, algs) ==
    \E sig \in m.sigs : sig.alg \in algs /\ sig.hex = Hmac(s, m.t, m.body)

\* verify: one secret, and the body must be an event of the kit.
Verify(m, s, algs) ==
    IF s = 0 THEN "missing_secret"
    ELSE IF m.form # "good" THEN "malformed_header"
    ELSE IF Drift(m) > Tolerance THEN "expired_timestamp"
    ELSE IF ~Matches(m, s, algs) THEN "invalid_signature"
    ELSE IF m.body # "event" THEN "invalid_payload"
    ELSE "ok"

\* verifyWebhook: a list of secrets, any body.
VerifyFirstOnly(m, ss) ==                                           \* mutant
    IF m.form # "good" THEN "malformed_header"
    ELSE IF Drift(m) > Tolerance THEN "timestamp_expired"
    ELSE IF ss # <<>> /\ Matches(m, ss[1], {"v1"}) THEN "ok"
    ELSE "signature_mismatch"
VerifyWebhook(m, ss) ==
    IF m.form # "good" THEN "malformed_header"
    ELSE IF Drift(m) > Tolerance THEN "timestamp_expired"
    ELSE IF \A sig \in m.sigs : sig.alg # "v1" THEN "malformed_header"
    ELSE IF \E k \in DOMAIN ss : Matches(m, ss[k], {"v1"}) THEN "ok"
    ELSE "signature_mismatch"

\* createRawHandler: a body that is no event of the kit may still be an item.
Handle(m, s, algs) ==
    LET v == Verify(m, s, algs)
    IN  CASE m.form = "missing" -> 400
          [] v \notin {"ok", "invalid_payload"} -> 400
          [] m.body = "garbage" \/ m.body = "mismatch" -> 400
          [] OTHER -> 200

\* The route of createWebhookSource looks at the classes of errors one by one.
HandlePost(m, s, algs) ==
    LET v == Verify(m, s, algs)
    IN  CASE m.form = "missing" -> 400
          [] v \in {"expired_timestamp", "missing_secret", "malformed_header"} -> 400
          [] v = "invalid_signature" -> 400
          [] m.body \in {"garbage", "mismatch"} -> 400
          [] OTHER -> 200

-----------------------------------------------------------------------------
Init ==
    /\ now = 0 /\ ahead \in 0..Skew /\ secret = 1 /\ held = <<1>>
    /\ wire = <<>> /\ answer = <<>>

Send ==
    /\ wire = <<>>
    /\ \E body \in {"event", "item", "mismatch", "garbage"}, alg \in {"v1", "v2"} :
        wire' = <<Sign(body, secret, alg)>>
    /\ UNCHANGED <<now, ahead, secret, held, answer>>

\* On the way: a changed body, or a header that is not the sender's.
Damage ==
    /\ wire # <<>> /\ answer = <<>> /\ wire[1].form = "good"
    /\ \/ \E body \in {"event", "item"} \ {wire[1].body} : wire' = <<[wire[1] EXCEPT !.body = body]>>
       \/ \E form \in {"malformed", "missing"} : wire' = <<[wire[1] EXCEPT !.form = form]>>
    /\ UNCHANGED <<now, ahead, secret, held, answer>>

Receive ==
    /\ wire # <<>> /\ answer = <<>>
    /\ \E algs \in {{"v1"}, {"v1", "v2"}}, configured \in {TRUE, FALSE} :
        LET one == IF configured THEN held[1] ELSE 0
        IN  answer' = <<[algs |-> algs, configured |-> configured, at |-> now, tried |-> held,
                         verify |-> Verify(wire[1], one, algs),
                         webhook |-> VerifyWebhook(wire[1], held),
                         status |-> Handle(wire[1], one, algs),
                         posted |-> HandlePost(wire[1], one, algs)]>>
    /\ UNCHANGED <<now, ahead, secret, held, wire>>

\* The receiver adds the next secret before the sender uses it, and drops the
\* old one later.
Rotate ==
    \/ /\ Head(held) \in Secrets /\ Head(held) + 1 \in Secrets
       /\ held' = <<Head(held) + 1>> \o held /\ UNCHANGED secret
    \/ secret # Head(held) /\ secret' = Head(held) /\ UNCHANGED held
    \/ Len(held) > 1 /\ secret = Head(held) /\ held' = <<Head(held)>> /\ UNCHANGED secret
Rotates == answer = <<>> /\ Rotate /\ UNCHANGED <<now, ahead, wire, answer>>

Tick == answer = <<>> /\ now < LastTime /\ now' = now + 1 /\ UNCHANGED <<ahead, secret, held, wire, answer>>

Next == Send \/ Damage \/ Receive \/ Rotates \/ Tick

-----------------------------------------------------------------------------
\* The body and header arrived as they were signed.
Intact(m) == m.form = "good" /\ \A sig \in m.sigs : sig.hex = Hmac(m.by, m.t, m.body)

(***************************************************************************)
(* A request that arrives intact while its secret is held, and a second    *)
(* earlier than the tolerance, is accepted, whatever secret was put first  *)
(* meanwhile; one that is accepted was signed with a secret that is held,  *)
(* and is no more than a second older than the tolerance.                  *)
(***************************************************************************)
Age(m, a) == a.at + ahead - m.at
SignedIsAccepted ==
    answer # <<>> =>
        LET m == wire[1]  a == answer[1]
            v1 == \E sig \in m.sigs : sig.alg = "v1"
        IN  /\ (/\ Intact(m) /\ v1 /\ m.by \in ToSet(a.tried)
                /\ Age(m, a) <= Tolerance - Second) => a.webhook = "ok"
            /\ a.webhook = "ok" => /\ Intact(m) /\ m.by \in ToSet(a.tried)
                                   /\ Age(m, a) < Tolerance + Second
            /\ a.status = 200 => /\ Intact(m) /\ a.configured
                                 /\ Age(m, a) < Tolerance + Second
\* The two verifiers accept the same event when one secret is held, and the
\* raw handler and the route answer alike.
VerifiersAgree ==
    answer # <<>> =>
        LET a == answer[1]
        IN  /\ a.configured /\ Len(a.tried) = 1 /\ a.algs = {"v1"} =>
                    (a.webhook = "ok") = (a.verify \in {"ok", "invalid_payload"})
            /\ a.verify = "ok" => a.status = 200
            /\ a.posted = a.status
=============================================================================
