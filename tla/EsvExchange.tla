----------------------------- MODULE EsvExchange -----------------------------
(***************************************************************************)
(* The requests of esv-harness: one token, renewed before it expires or    *)
(* when the server refuses it, authenticates every request; a poll asks    *)
(* for the status of a data file until it is final.  Tokens are had for a  *)
(* one-time code, and the server takes one code of each 30-second window,  *)
(* so a second login within it waits.                                      *)
(*                                                                         *)
(* Time passes in units of TOTP_REUSE_WAIT, 10 seconds, while the client   *)
(* waits or does other work; a request takes none.  The client tells the   *)
(* age of its token by a clock that stands still while the machine is      *)
(* suspended.                                                              *)
(***************************************************************************)
EXTENDS Integers

CONSTANTS
  Life,         \* how long the server takes a token: 1800 seconds
  Margin,       \* refresh_margin_secs, 1200 seconds
  Window,       \* of a one-time code: 3
  RetryCap,     \* TOTP_REUSE_RETRY_CAP, 3
  PollWait,     \* not_yet_processed_wait and processing_wait: 3
  MaxPolls,     \* max_total_polls (240 in the code)
  MaxNyp,       \* max_not_yet_processed_polls (20)
  MaxTransient  \* max_consecutive_transient_failures (3)

\* A token outlives its margin, and the retries of a post outlast the window of a code.
ASSUME ExchangeAssumption ==
  /\ Life \in Nat \ {0} /\ Margin \in 0..Life
  /\ Window \in Nat \ {0} /\ RetryCap \in Nat /\ Window <= RetryCap
  /\ PollWait \in Nat /\ MaxPolls \in Nat /\ MaxNyp \in Nat /\ MaxTransient \in Nat

VARIABLES
  honest,    \* the network and the server do what they should
  phase,     \* where in its window the time is
  used,      \* a code of this window was taken
  age,       \* of the token, as the server sees it, up to Life
  clock,     \* its age as the client sees it, up to Margin
  where,     \* where the client is
  what,      \* the call: "request" or "poll"
  post,      \* what is posted with a code: "refresh" or "login"
  next,      \* where the client goes on with the new token
  retries,   \* of post_totp_signed
  polls, nyp, transient, \* of poll_data_file
  result,    \* what the last call ended with
  slept,     \* history: the machine was suspended in this call
  blind      \* history: the machine was suspended since the token came

timeVars == <<phase, used, age, clock>>
callVars == <<where, what, post, next, retries, polls, nyp, transient, result>>
exchangeVars == <<honest, timeVars, callVars, slept, blind>>

AtMost(n, limit) == IF n < limit THEN n ELSE limit

ExchangeInit ==
  /\ honest \in BOOLEAN
  /\ phase \in 0..Window - 1 /\ used = TRUE /\ age = 0 /\ clock = 0
  /\ where = "idle" /\ what = "request" /\ post = "login" /\ next = "idle" /\ retries = 0
  /\ polls = 0 /\ nyp = 0 /\ transient = 0 /\ result = "none"
  /\ slept = FALSE /\ blind = FALSE

Goto(place) == where' = place /\ UNCHANGED <<what, post, next, retries, polls, nyp, transient, result>>

End(how) ==
  /\ where' = "idle" /\ result' = how
  /\ retries' = 0 /\ polls' = 0 /\ nyp' = 0 /\ transient' = 0 /\ post' = "login" /\ next' = "idle"
  /\ UNCHANGED what

\* n units pass, on both clocks.
Pass(n) ==
  /\ phase' = (phase + n) % Window
  /\ used' = (used /\ phase + n < Window)
  /\ age' = AtMost(age + n, Life) /\ clock' = AtMost(clock + n, Margin)
  /\ UNCHANGED <<honest, slept, blind>>

Quiet == UNCHANGED <<honest, timeVars, slept, blind>>

-----------------------------------------------------------------------------
(* post_totp_signed, refresh, and login as its fallback.                   *)

\* A post with a code, after which the client goes on at place.
Post(place) ==
  /\ where' = "post" /\ post' = "refresh" /\ next' = place /\ retries' = 0
  /\ UNCHANGED <<what, polls, nyp, transient, result>>

\* refresh_if_stale, before the client goes on at place.
RefreshIfStale(place) == IF clock >= Margin THEN Post(place) ELSE Goto(place)

\* What the server makes of a post: an embedded token must still be good.
Replies ==
  IF ~honest THEN {"reuse", "ok", "refused", "failed"}
  ELSE IF used THEN {"reuse"} ELSE IF post = "login" \/ age < Life THEN {"ok"} ELSE {"refused"}

\* Fault: one retry too few.
Exhausted_Early == retries + 1 >= RetryCap

Exhausted == retries >= RetryCap

Reuse ==
  /\ where = "post" /\ "reuse" \in Replies
  /\ IF Exhausted THEN End("windowReuse")
     ELSE /\ where' = "wait" /\ retries' = retries + 1
          /\ UNCHANGED <<what, post, next, polls, nyp, transient, result>>
  /\ Quiet

Wait == where = "wait" /\ Pass(1) /\ Goto("post")

\* adopt_token.
Adopt ==
  /\ where = "post" /\ "ok" \in Replies
  /\ age' = 0 /\ clock' = 0 /\ blind' = FALSE /\ used' = TRUE
  /\ Goto(next)
  /\ UNCHANGED <<honest, phase, slept>>

\* A refresh that is refused falls back to a login; whether the code counts as taken is the
\* server's.
Refused ==
  /\ where = "post" /\ "refused" \in Replies
  /\ IF post = "login" THEN End("refused")
     ELSE post' = "login" /\ retries' = 0 /\ UNCHANGED <<where, what, next, polls, nyp, transient, result>>
  /\ used' \in {used, TRUE}
  /\ UNCHANGED <<honest, phase, age, clock, slept, blind>>

\* The connection fails, or the answer is another status or no token.
PostFails == where = "post" /\ "failed" \in Replies /\ End("failed") /\ Quiet

-----------------------------------------------------------------------------
(* authenticated_request.                                                  *)

Begin(call) == what' = call /\ UNCHANGED <<post, next, retries, polls, nyp, transient>>

Request ==
  /\ where = "idle" /\ Begin("request")
  /\ where' = "fresh" /\ result' = "none"
  /\ slept' = FALSE /\ UNCHANGED <<honest, timeVars, blind>>

Fresh == where = "fresh" /\ RefreshIfStale("send") /\ Quiet

Answers ==
  IF ~honest THEN {"served", "unauthorized", "failed"}
  ELSE IF age < Life THEN {"served"} ELSE {"unauthorized"}

\* A refused token is renewed, once.
Send ==
  /\ where = "send"
  /\ \E answer \in Answers : IF answer = "unauthorized" THEN Post("resend") ELSE End(answer)
  /\ Quiet

Resend == where = "resend" /\ (\E answer \in Answers : End(answer)) /\ Quiet

-----------------------------------------------------------------------------
(* poll_data_file, with a token provider that refreshes a stale token.     *)

Poll ==
  /\ where = "idle" /\ Begin("poll")
  /\ where' = "poll" /\ result' = "none"
  /\ slept' = FALSE /\ UNCHANGED <<honest, timeVars, blind>>

\* Fault: only polls in a row with one status are counted.
Counted_Never == polls

Counted == polls + 1

PollOnce ==
  /\ where = "poll"
  /\ IF polls >= MaxPolls THEN End("pollTimeout")
     ELSE /\ polls' = Counted
          /\ IF clock >= Margin THEN where' = "post" /\ post' = "refresh" /\ next' = "get" /\ retries' = 0
                                ELSE where' = "get" /\ UNCHANGED <<post, next, retries>>
          /\ UNCHANGED <<what, nyp, transient, result>>
  /\ Quiet

\* A refused token comes as an error payload, like any other refusal.
Statuses ==
  IF ~honest THEN {"transient", "notYetProcessed", "processing", "terminal", "serverError"}
  ELSE IF age < Life THEN {"notYetProcessed", "processing", "terminal"} ELSE {"serverError"}

Rest(inRow, failures) ==
  /\ where' = "rest" /\ nyp' = inRow /\ transient' = failures
  /\ UNCHANGED <<what, post, next, retries, polls, result>>

Get ==
  /\ where = "get"
  /\ \E status \in Statuses :
       \/ /\ status = "transient"
          /\ IF transient + 1 > MaxTransient THEN End("transient") ELSE Rest(nyp, transient + 1)
       \/ /\ status = "notYetProcessed"
          /\ IF nyp >= MaxNyp THEN End("nypTimeout") ELSE Rest(nyp + 1, 0)
       \/ status = "processing" /\ Rest(0, 0)
       \/ status \in {"terminal", "serverError"} /\ End(status)
  /\ Quiet

RestOver == where = "rest" /\ Pass(PollWait) /\ Goto("poll")

-----------------------------------------------------------------------------

\* The client does something else.
Elapse == where = "idle" /\ Pass(1) /\ UNCHANGED callVars

\* The machine is suspended for any time: the client's clock stands still.
Suspend ==
  /\ phase' \in 0..Window - 1 /\ age' \in age..Life
  /\ used' \in (IF phase' >= phase THEN {used, FALSE} ELSE {FALSE})
  /\ slept' = TRUE /\ blind' = TRUE
  /\ UNCHANGED <<honest, clock, callVars>>

ClientStep ==
  \/ Reuse \/ Wait \/ Adopt \/ Refused \/ PostFails \/ Fresh \/ Send \/ Resend
  \/ PollOnce \/ Get \/ RestOver

ExchangeNext == ClientStep \/ Request \/ Poll \/ Elapse \/ Suspend

\* Requests are answered or time out, and waits end.
ExchangeFairness == WF_exchangeVars(ClientStep)

ExchangeSpec == ExchangeInit /\ [][ExchangeNext]_exchangeVars /\ ExchangeFairness

-----------------------------------------------------------------------------
(* What a call promises.                                                   *)

\* With a server and a network that do what they should, a request is served: a token the
\* client takes for good although it expired in a suspension is renewed, and a code that was
\* taken is waited out within the retries.  Only a suspension after the renewal can expire the
\* new token too.  A poll is refused for its token only when the machine was suspended since
\* the token came (login.rs, datafiles.rs).
HonestIsServed ==
  honest /\ result # "none" =>
    /\ what = "request" => result = "served" \/ (result = "unauthorized" /\ slept /\ blind)
    /\ what = "poll" => \/ result \in {"terminal", "pollTimeout", "nypTimeout"}
                        \/ (result = "serverError" /\ blind)

\* Every request and every poll returns, whatever the server answers: no status, refusal or
\* used code keeps a call going for ever.
ExchangesReturn == where # "idle" ~> where = "idle"
=============================================================================
