------------------------------ MODULE OtpProps ------------------------------
(***************************************************************************)
(* What one-time codes, their cooldown and reset tokens must guarantee.    *)
(* The handlers read, wait and write, so that what one at a time would do  *)
(* once, n at a time can do n times: what is used up is refused to those   *)
(* that come later, not to those that have looked already.                 *)
(***************************************************************************)
EXTENDS Otp

AtOnce == Cardinality(Requests)

\* A new code replaces every older one of its type, so that no more codes of a type
\* work than were sent at the same time, however many were sent before, also by
\* senders that failed halfway (send-verification-otp.service.ts and
\* send-password-reset-otp.service.ts delete before they insert).
FewCodes == \A type \in Types : Cardinality(Rows(type)) <= AtOnce

\* A reset code for which a reset token was issued is used up: no verification finds
\* its row any more, whoever deleted it, and only those that had found it before can
\* still use it (verify-password-reset-otp.service.ts deletes the rows before it grants).
CodeUsedUp ==
    [][\A r \in Requests :
            At(r, "findToken") /\ req'[r].pc = "compare" => opened[req'[r].row] = 0]_vars

\* A code that was mailed to verify the email opens no password reset, although
\* both types are rows of one table.
TypesApart == \A c \in Codes : opened[c] > 0 => purpose[c] = "password_reset"

\* A reset token that set a password is used up: no request gets it from Redis any
\* more, and only those that had got it before it was deleted can still use it
\* (consumeResetToken of redis.client.ts deletes before the password is set).
TokenUsedUp ==
    [][\A r \in Requests :
            At(r, "getGrant") /\ req'[r].pc = "delGrant" => resets[req[r].g] = 0]_vars

\* "Resend cooldown": while it runs, prolonged or not, the only mails of its type are
\* those of senders that were under way when it began.
CooldownKept == \A type \in Types : late[type] < AtOnce

\* "Verification tokens: One-time use": one reset token for a code.
CodesOnce == \A c \in Codes : opened[c] <= 1

\* "10-min single-use reset token": one password for a reset token.
TokensOnce == \A g \in Grants : resets[g] <= 1

\* Of the two promises of the documents, that codes work once and that reset tokens
\* do, at least one is kept.  (It is not: of two requests with one code, and then of
\* two with one reset token, the second reads before the first deletes, and its own
\* delete of nothing is not noticed; a counterexample breaks both promises.)
OneTimeUse == CodesOnce \/ TokensOnce
=============================================================================
