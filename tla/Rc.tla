--------------------------------- MODULE Rc ---------------------------------
(***************************************************************************)
(* One call of rclone's rc API (crates/core/src/rc.rs): up to three        *)
(* attempts over a UNIX socket within one budget of time.  An error is its *)
(* kind; time is counted in tenths of a second.                            *)
(***************************************************************************)
EXTENDS Naturals, Sequences

CALL_TIMEOUT == 100
MAX_ATTEMPTS == 3
RETRY_BASE_DELAY == 1

Answered == "Answered"

\* Decode is for an answer that call cannot make sense of; the other errors end an
\* attempt, or the budget.
Errors ==
    {"NotListening", "InsecureSocket", "Connect", "Timeout", "Failed", "Decode",
     "InvalidCommand", "ResponseTooLarge", "Transport"}

\* No usable rc, as against an rclone that said no.
IsUnreachable(error) ==
    error \in {"NotListening", "InsecureSocket", "Connect", "Timeout", "Transport"}

(***************************************************************************)
(* One attempt                                                             *)
(***************************************************************************)
\* What is found where the socket should be: the file itself, its directory (ours and
\* closed to others, one they can look into, or write to, or that cannot be inspected),
\* whether the socket's own mode lets others in, and whose it is.
Places ==
    [file : {"socket", "symlink", "another file", "nothing", "unknown"},
     dir : {"closed", "readable", "writable", "unknown"},
     open : BOOLEAN,
     ours : BOOLEAN]

\* Who accepts there: with whose rights it runs, and what it does with a request.
Servers ==
    [ours : BOOLEAN,
     does : {"refuses", "fails", "breaks off", "rejects", "floods", "answers"}]

Verify(place) ==
    IF place.file = "nothing" THEN "NotListening"
    ELSE IF place.file = "unknown" THEN "Connect"
    ELSE IF \/ place.file # "socket"
            \/ place.dir \in {"writable", "unknown"}
            \/ place.open /\ place.dir # "closed"
            \/ ~place.ours
         THEN "InsecureSocket" ELSE Answered

\* Verify, connect, ask who is there, and only then send the request.
Attempt(place, server) ==
    IF Verify(place) # Answered THEN Verify(place)
    ELSE CASE server.does = "refuses" -> "NotListening"
           [] server.does = "fails" -> "Connect"
           [] OTHER ->
                IF ~server.ours THEN "InsecureSocket"
                ELSE CASE server.does = "breaks off" -> "Transport"
                       [] server.does = "rejects" -> "Failed"
                       [] server.does = "floods" -> "ResponseTooLarge"
                       [] server.does = "answers" -> Answered

AttemptResults == {Attempt(place, server) : place \in Places, server \in Servers}

(***************************************************************************)
(* The call                                                                *)
(***************************************************************************)
\* What an attempt of that result would take, left alone.
Tries == [met : AttemptResults, takes : {0, 40, 99, 100, 101}]

Unanswered == [spent |-> 0, asked |-> 0, ended |-> "pending"]

\* Mutant: every attempt has the whole budget.
NextTryAnew(call, try) ==
    LET spent == call.spent + try.takes
        asked == call.asked + 1
        backoff == RETRY_BASE_DELAY * 2^(asked - 1)
    IN  IF try.takes > CALL_TIMEOUT
        THEN [spent |-> call.spent + CALL_TIMEOUT, asked |-> asked, ended |-> "Timeout"]
        ELSE IF try.met # "Transport" \/ asked >= MAX_ATTEMPTS
        THEN [spent |-> spent, asked |-> asked, ended |-> try.met]
        ELSE [spent |-> spent + backoff, asked |-> asked, ended |-> "pending"]

\* One more attempt within what is left, and whether that was the last one: only a
\* transport fault is tried again, and only if the wait before that fits as well.
NextTry(call, try) ==
    LET left == CALL_TIMEOUT - call.spent
        spent == call.spent + try.takes
        asked == call.asked + 1
        backoff == RETRY_BASE_DELAY * 2^(asked - 1)
    IN  IF try.takes > left
        THEN [spent |-> CALL_TIMEOUT, asked |-> asked, ended |-> "Timeout"]
        ELSE IF \/ try.met # "Transport" \/ asked >= MAX_ATTEMPTS
                \/ backoff >= CALL_TIMEOUT - spent
        THEN [spent |-> spent, asked |-> asked, ended |-> try.met]
        ELSE [spent |-> spent + backoff, asked |-> asked, ended |-> "pending"]

\* call_raw, by what each of its attempts would meet.
CallRaw(tries) ==
    LET after[n \in 0..MAX_ATTEMPTS] ==
            IF n = 0 THEN Unanswered
            ELSE IF after[n - 1].ended # "pending" THEN after[n - 1]
            ELSE NextTry(after[n - 1], tries[n])
    IN  after[MAX_ATTEMPTS]

\* A call ends within its budget with what its last attempt met, or says that the budget
\* ran out when it did; it asks again only after a broken connection, and whatever it
\* calls unreachable is not an rclone of ours that answered.
HonestCall(tries) ==
    LET call == CallRaw(tries)
    IN  /\ call.asked \in 1..MAX_ATTEMPTS
        /\ call.spent <= CALL_TIMEOUT
        /\ \A n \in 1..(call.asked - 1) : tries[n].met = "Transport"
        /\ IF call.ended = "Timeout" THEN call.spent = CALL_TIMEOUT
           ELSE call.ended = tries[call.asked].met
        /\ call.ended = "Transport" =>
              \/ call.asked = MAX_ATTEMPTS
              \/ call.spent + RETRY_BASE_DELAY * 2^(call.asked - 1) >= CALL_TIMEOUT

\* What a request is sent to is private: nobody else can have put it there, or reach it.
HonestAttempt(place, server) ==
    LET met == Attempt(place, server)
    IN  ~IsUnreachable(met) =>
            /\ server.ours /\ place.ours /\ place.file = "socket"
            /\ server.does \in {"rejects", "floods", "answers"}
            /\ place.dir # "writable"
            /\ place.open => place.dir = "closed"
=============================================================================
