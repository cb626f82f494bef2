----------------------------- MODULE ProviderCall -----------------------------
(***************************************************************************)
(* One chat completion of ProviderClient (providers/client.py): posts the  *)
(* request, retries what may pass, and gives up when the call's deadline   *)
(* leaves no room for another attempt.                                     *)
(***************************************************************************)
EXTENDS Integers

CONSTANTS
    MaxRetries,      \* of the profile; every smaller number is tried as well
    Deadlines,       \* what request_timeout may be
    NoDeadline,      \* the caller sets none
    MaxPost,         \* bound: how long a post can take
    InitialBackoff,
    MaxBackoff

ASSUME CallAssumption ==
    /\ {MaxRetries, MaxPost} \subseteq Nat
    /\ {InitialBackoff, MaxBackoff} \subseteq Nat \ {0}
    /\ NoDeadline \notin Nat /\ Deadlines \subseteq Nat \cup {NoDeadline}

VARIABLES
    pc,        \* looping or done
    retries,   \* the profile's max_retries
    deadline,  \* of this call; it starts at time 0
    now,
    attempt,
    posts,     \* requests sent
    last,      \* how the last post ended
    metered,   \* answers recorded in the token ledger
    result     \* of complete: an answer or an error

callVars == <<pc, retries, deadline, now, attempt, posts, last, metered, result>>

\* An answer that can be used, and the ways a 200 can be something else: not
\* JSON, an error envelope, or not the shape of a completion.
Statuses == {"ok", "not_json", "error_envelope", "wrong_shape",
             "429", "500", "503", "400"}
\* A JSON value that is not an object, and a transport error that is neither
\* a timeout nor a network error, escape complete as they are.
Escapes  == {"not_an_object", "protocol"}
Failures == {"timeout", "network"}
Endings  == Statuses \cup Escapes \cup Failures

CallInit ==
    /\ pc = "looping"
    /\ retries \in 0 .. MaxRetries
    /\ deadline \in Deadlines
    /\ now = 0 /\ attempt = 0 /\ posts = 0 /\ metered = 0
    /\ last = "none" /\ result = "none"

-----------------------------------------------------------------------------
Late(t) == deadline # NoDeadline /\ t > deadline

Delay(n) ==
    LET d == InitialBackoff * 2 ^ n IN IF d > MaxBackoff THEN MaxBackoff ELSE d

Retryable(ending) == ending \in {"429", "500", "503"} \cup Failures

RetriesLeft(n) == n < retries

\* What a post that is not retried amounts to.
Verdict(ending) ==
    CASE ending = "ok"             -> "answer"
      [] ending \in {"not_json", "wrong_shape"} -> "MALFORMED_RESPONSE"
      [] ending = "429"            -> "PROVIDER_RATE_LIMIT"
      [] ending \in {"503", "network"} -> "PROVIDER_UNAVAILABLE"
      [] ending \in {"error_envelope", "500", "400"} -> "PROVIDER_ERROR"
      [] ending = "timeout"        -> "PROVIDER_TIMEOUT"
      [] OTHER                     -> "escaped"

Finish(res) == pc' = "done" /\ result' = res

\* A response, not an exception, is dropped when it comes after the deadline.
TooLate(ending, t) == ending \notin Failures \cup {"protocol"} /\ Late(t)

\* The deadline passed while the call slept.
OutOfTime == deadline # NoDeadline /\ now >= deadline

\* Mutant: a call that wakes exactly at its deadline is not ended.
GiveUpPastDeadline ==
    /\ pc = "looping"
    /\ Late(now)
    /\ Finish("PROVIDER_TIMEOUT")
    /\ UNCHANGED <<retries, deadline, now, attempt, posts, last, metered>>

GiveUp ==
    /\ pc = "looping"
    /\ OutOfTime
    /\ Finish("PROVIDER_TIMEOUT")
    /\ UNCHANGED <<retries, deadline, now, attempt, posts, last, metered>>

\* One post and what follows it; d is how long it took.  Timeouts are kept
\* per phase of a request, so a post may outlast what remains of the call.
Post(ending, d) ==
    LET t     == now + d
        again == Retryable(ending) /\ ~TooLate(ending, t) /\ RetriesLeft(attempt)
    IN  /\ pc = "looping"
        /\ ~OutOfTime
        /\ posts' = posts + 1
        /\ last' = ending
        /\ metered' = metered + (IF ending = "ok" /\ ~TooLate(ending, t) THEN 1 ELSE 0)
        /\ IF again /\ ~Late(t + Delay(attempt))
           THEN /\ now' = t + Delay(attempt)
                /\ attempt' = attempt + 1
                /\ UNCHANGED <<pc, result>>
           ELSE /\ now' = t
                /\ Finish(IF again \/ TooLate(ending, t)
                          THEN "PROVIDER_TIMEOUT" ELSE Verdict(ending))
                /\ UNCHANGED attempt
        /\ UNCHANGED <<retries, deadline>>

CallNext == GiveUp \/ \E ending \in Endings, d \in 0 .. MaxPost : Post(ending, d)

CallSpec == CallInit /\ [][CallNext]_callVars
FairCallSpec == CallSpec /\ WF_callVars(CallNext)

-----------------------------------------------------------------------------
(* Properties. *)

\* A call with a deadline gives no answer after it, starts no post after it
\* and ends at most one post later; one without a deadline ends after its
\* attempts and the capped delays between them.
DeadlineKept ==
    /\ (result = "answer" /\ deadline # NoDeadline) => now <= deadline
    /\ deadline # NoDeadline => now <= deadline + MaxPost
    /\ now <= posts * MaxPost + attempt * MaxBackoff

\* The error a caller sees is the one of the last post, and one that may pass
\* is reported only when no retry was left or no time for it.  What was paid
\* for is metered exactly when the caller gets it.
ErrorTellsWhatHappened ==
    pc = "done" =>
        /\ result \in {Verdict(last), "PROVIDER_TIMEOUT"}
        /\ result # "PROVIDER_TIMEOUT" /\ Retryable(last) => attempt = retries
        /\ result = "PROVIDER_TIMEOUT" => \/ last = "timeout" /\ attempt = retries
                                          \/ deadline # NoDeadline
        /\ metered = 1 <=> result = "answer"

\* A call ends, however often the provider asks to come back later, in time
\* and with an error that tells what happened.
CallEnds == <>(pc = "done" /\ DeadlineKept /\ ErrorTellsWhatHappened)

=============================================================================
