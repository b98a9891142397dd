---------------------------- MODULE AcvpSession ----------------------------
(***************************************************************************)
(* The ACVP client: demo-run fetches each vector set of a test session,    *)
(* computes its answers, keeps them in the vector set's directory, submits *)
(* them and polls the verdict; resubmit replays kept answers later.  One   *)
(* session token and, with s_client, one TLS tunnel serve the whole run.   *)
(* Both can be gone after a long computation, so a submit is tried again   *)
(* over a new tunnel, or with a new token, and by resubmit.                *)
(*                                                                         *)
(* The process may die at any step.  What it wrote is then still there:    *)
(* losses of power are not modelled, as nothing here is synced.            *)
(***************************************************************************)
EXTENDS Integers, Sequences

CONSTANTS
  N,          \* vector sets of the session, in the order they are processed
  Backends,   \* the transports: "curl", "s_client"
  MaxFetches, \* max_polls of the fetch loop (30 in the code)
  MaxPolls,   \* max_polls of poll_verdict (20 in the code)
  MaxReplays, \* bound: resubmit commands the operator gives
  MaxMishaps   \* bound: deaths of the process and failed writes

ASSUME AcvpAssumption == N \in Nat \ {0} /\ MaxMishaps \in Nat

VARIABLES
  backend,  \* the transport of the run
  command,  \* "demo", "resubmit", or "none" when no process runs
  auto,     \* run_resubmit was called by run_demo
  stage,       \* where the process is
  cur,      \* the vector set in hand
  conn,     \* the tunnel: "live", "dead", or "closing" after Connection: close
  age,      \* of the token: 0, 1 past the refresh margin, 2 expired
  tries,    \* fetches or polls made of the vector set in hand
  outcome,  \* SubmitOutcome of the last attempt
  disp,     \* the dispositions collected so far
  exit,     \* what the last process ended with
  file,     \* the files of each vector set's directory
  server,   \* what the server has of each vector set
  posts,    \* history: submits of each vector set by this process
  renewed,  \* history: the token was renewed, or a renewal failed, for this submit
  replays, mishaps \* still to come

acvpVars == <<backend, command, auto, stage, cur, conn, age, tries, outcome, disp, exit, file,
          server, posts, renewed, replays, mishaps>>

VectorSets == 1 .. N
Verdicts == {"passed", "failed"}

\* Dispositions. SUBMIT_HTTP is told apart by whether the status was 401 or 403.
Errors == {"RETRY_TIMEOUT", "FETCH_ERROR", "PARSE_ERROR", "HTTP", "PERSIST_ERROR",
           "DISPATCH_ERROR", "SUBMIT_AUTH", "SUBMIT_HTTP", "SUBMIT_ERROR", "POLL_ERROR"}

\* Nothing of a directory is there until open_session_store makes it.
NoFiles == [prompt |-> "absent", response |-> "absent", status |-> "absent"]

\* is_error_disposition.
IsError(d) == d \in Errors

-----------------------------------------------------------------------------
(* The network.  A call ends with a reply, with an error that              *)
(* connection_is_dead recognises ("dead") or with another error ("other"). *)

\* A tunnel the server means to close is opened again before the request; a dead one
\* fails whatever is asked of it. curl makes a connection for every request.
Calls ==
  IF conn = "dead" THEN {[end |-> "dead", conn |-> "dead"]}
  ELSE LET after == IF backend = "curl" THEN {"live"} ELSE {"live", "closing"}
           lost == IF backend = "curl" THEN "live" ELSE "dead"
       IN [end : {"reply"}, conn : after] \cup [end : {"other"}, conn : after \cup {conn}]
          \cup {[end |-> "dead", conn |-> lost]}

\* Transport::open and reopen: starting s_client may fail, and a tunnel that
\* was started may turn out to be dead when it is first used.
Opened == IF backend = "curl" THEN {"live"} ELSE {"live", "dead"}

\* The replies to a request: an expired token is refused.
Answers(good) == IF age = 2 THEN {"auth"} ELSE good \cup {"auth", "http"}

\* std::fs::write truncates and writes: it may fail with the file as it was, or cut.
Writes(old, new) == {new} \cup (IF mishaps > 0 THEN {old, "cut"} ELSE {})

CountFault(failed) == mishaps' = mishaps - (IF failed THEN 1 ELSE 0)

Goto(l) == stage' = l

Record(d) == disp' = [disp EXCEPT ![cur] = d]

\* The next vector set, or the automatic resubmits once all are done.
NextSet ==
  IF cur < N THEN cur' = cur + 1 /\ Goto("fresh")
             ELSE cur' = 1 /\ Goto("recover")

-----------------------------------------------------------------------------
AcvpInit ==
  /\ backend \in Backends
  /\ command = "none" /\ auto = FALSE /\ stage = "idle" /\ cur = 1
  /\ conn = "live" /\ age = 0 /\ tries = 0 /\ outcome = "none"
  /\ disp = [v \in VectorSets |-> "none"] /\ exit = "none"
  /\ file = [v \in VectorSets |-> NoFiles]
  /\ server = [v \in VectorSets |-> "none"]
  /\ posts = [v \in VectorSets |-> 0] /\ renewed = FALSE
  /\ replays = MaxReplays /\ mishaps = MaxMishaps

\* run_demo up to the registration, whose reply names the vector sets and brings the
\* session token. Without it nothing is kept and the command ends with an error.
RunDemo ==
  /\ stage = "idle" /\ exit = "none"
  /\ \E c \in Opened : conn' = c
  /\ \/ /\ command' = "demo" /\ age' = 0 /\ cur' = 1 /\ Goto("fresh") /\ exit' = exit
     \/ exit' = "error" /\ UNCHANGED <<command, age, cur, stage>>
  /\ UNCHANGED <<backend, auto, tries, outcome, disp, file, server, posts, renewed,
                 replays, mishaps>>

-----------------------------------------------------------------------------
(* process_one_vector_set.                                                 *)

\* SessionToken::refresh: a login over the tunnel, whose token is good for half an hour.
Refresh(onOk, onError) ==
  \E c \in Calls :
    /\ conn' = c.conn
    /\ \/ c.end = "reply" /\ age' = 0 /\ Goto(onOk)
       \/ age' = age /\ Goto(onError)

\* refresh_if_stale: a failure only warns.
RefreshIfStale(from, to) ==
  /\ stage = from
  /\ IF age = 0 THEN UNCHANGED <<conn, age, renewed>> /\ Goto(to)
                ELSE Refresh(to, to) /\ renewed' = TRUE
  /\ UNCHANGED <<backend, command, auto, cur, tries, outcome, disp, exit, file, server,
                 posts, replays, mishaps>>

\* An earlier set's computation may have aged the token.
StartSet == RefreshIfStale("fresh", "fetch")

\* A fetch: the set, a request to come back later, which is slept on, or an error.
Fetch ==
  /\ stage = "fetch"
  /\ \E c \in Calls :
       /\ conn' = c.conn
       /\ IF c.end # "reply"
          THEN Record("FETCH_ERROR") /\ NextSet /\ UNCHANGED <<age, tries>>
          ELSE \E r \in Answers({"ready", "retry", "garbage"}) :
            CASE r = "ready" -> /\ Goto("store") /\ tries' = 0
                                /\ UNCHANGED <<age, cur, disp>>
              [] r = "retry" -> /\ age' \in age .. 2
                                /\ IF tries + 1 < MaxFetches
                                   THEN tries' = tries + 1 /\ UNCHANGED <<stage, cur, disp>>
                                   ELSE tries' = 0 /\ Record("RETRY_TIMEOUT") /\ NextSet
              [] OTHER -> /\ Record(IF r = "garbage" THEN "PARSE_ERROR" ELSE "HTTP")
                          /\ tries' = 0 /\ NextSet /\ age' = age
  /\ UNCHANGED <<backend, command, auto, outcome, exit, file, server, posts, renewed,
                 replays, mishaps>>

\* open_session_store: the prompt and the token, or no computation.
OpenSessionStore ==
  /\ stage = "store"
  /\ \E w \in Writes(file[cur].prompt, "full") :
       /\ file' = [file EXCEPT ![cur].prompt = w]
       /\ CountFault(w # "full")
       /\ IF w = "full" THEN Goto("compute") /\ UNCHANGED <<cur, disp>>
                        ELSE Record("PERSIST_ERROR") /\ NextSet
  /\ UNCHANGED <<backend, command, auto, conn, age, tries, outcome, exit, server, posts,
                 renewed, replays>>

\* dispatch::process takes its time: the token ages and an idle tunnel may die.
Compute ==
  /\ stage = "compute"
  /\ age' \in age .. 2
  /\ conn' \in IF backend = "curl" THEN {conn} ELSE {conn, "dead"}
  /\ renewed' = FALSE
  /\ \/ Goto("keep") /\ UNCHANGED <<cur, disp>>
     \/ Record("DISPATCH_ERROR") /\ NextSet
  /\ UNCHANGED <<backend, command, auto, tries, outcome, exit, file, server, posts,
                 replays, mishaps>>

\* The status follows only a response that was written; a failure only warns.
AfterKeep(w) == IF w = "full" THEN "pending" ELSE "renew"

\* write_response.
KeepResponse ==
  /\ stage = "keep"
  /\ \E w \in Writes(file[cur].response, "full") :
       /\ file' = [file EXCEPT ![cur].response = w]
       /\ CountFault(w # "full")
       /\ Goto(AfterKeep(w))
  /\ UNCHANGED <<backend, command, auto, cur, conn, age, tries, outcome, disp, exit,
                 server, posts, renewed, replays>>

WriteStatus(word, to) ==
  /\ \E w \in Writes(file[cur].status, word) :
       /\ file' = [file EXCEPT ![cur].status = w]
       /\ CountFault(w # word)
  /\ Goto(to)

MarkPending ==
  /\ stage = "pending"
  /\ WriteStatus("PENDING", "renew")
  /\ UNCHANGED <<backend, command, auto, cur, conn, age, tries, outcome, disp, exit,
                 server, posts, renewed, replays>>

RenewBeforeSubmit == RefreshIfStale("renew", "submit")

-----------------------------------------------------------------------------
(* Submitting.  demo-run posts the answers it has in memory, resubmit the  *)
(* bytes of response.json; the server takes only whole ones.  It may have  *)
(* taken them although the call ends in an error.                          *)

Whole == (command = "demo" /\ ~auto) \/ file[cur].response = "full"

\* A set that is posted again keeps what the server has of it.
Takes == server' = [server EXCEPT ![cur] = IF @ = "none" THEN "received" ELSE @]

\* The attempts, and where each goes on.
Attempts == {"submit", "again", "last", "replay"}

SubmitAnswers == Answers(IF Whole THEN {"ok"} ELSE {})

\* Fault: a submit that got no answer counts as done, as the server may have it.
Unanswered_Assumed(end) == "ok"

\* A call without a reply is no submit, even if the server has the answers.
Unanswered(end) == end

\* Fault: the token is renewed for as long as it is refused.
AfterAttempt_Loops(o) ==
  IF o = "ok" THEN "mark" ELSE IF o = "auth" THEN "authorize" ELSE "judge"

\* Only a 2xx is marked; a dead tunnel is opened again after the first attempt, a refused
\* token renewed after the first or the second, and a replay not tried again at all.
AfterAttempt(o) ==
  CASE o = "ok" -> "mark"
    [] stage = "submit" /\ o = "dead" -> "reopen"
    [] stage \in {"submit", "again"} /\ o = "auth" -> "authorize"
    [] OTHER -> "judge"

\* submit_and_mark: the post.
Submit ==
  /\ stage \in Attempts
  /\ posts' = [posts EXCEPT ![cur] = @ + 1]
  /\ \E c \in Calls :
       /\ conn' = c.conn
       /\ IF c.end # "reply"
          THEN /\ outcome' = Unanswered(c.end)
               /\ \/ Whole /\ age < 2 /\ Takes
                  \/ server' = server
          ELSE \E r \in SubmitAnswers :
                 /\ outcome' = r
                 /\ \/ r \in {"ok", "http"} /\ Whole /\ Takes
                    \/ r # "ok" /\ server' = server
       /\ Goto(AfterAttempt(outcome'))
  /\ UNCHANGED <<backend, command, auto, cur, age, tries, disp, exit, file, renewed,
                 replays, mishaps>>

\* Fault: the kept response is removed once it was accepted.
MarkSubmitted_Cleans ==
  /\ stage = "mark"
  /\ file' = [file EXCEPT ![cur].status = "SUBMITTED", ![cur].response = "absent"]
  /\ Goto("judge")
  /\ UNCHANGED <<backend, command, auto, cur, conn, age, tries, outcome, disp, exit,
                 server, posts, renewed, replays, mishaps>>

\* A status that cannot be written only warns.
MarkSubmitted ==
  /\ stage = "mark"
  /\ WriteStatus("SUBMITTED", "judge")
  /\ UNCHANGED <<backend, command, auto, cur, conn, age, tries, outcome, disp, exit,
                 server, posts, renewed, replays>>

\* A dead tunnel is opened again, once.
Reopen ==
  /\ stage = "reopen"
  /\ \/ conn' \in Opened /\ Goto("renewAgain")
     \/ backend # "curl" /\ conn' = conn /\ Goto("judge")
  /\ UNCHANGED <<backend, command, auto, cur, age, tries, outcome, disp, exit, file,
                 server, posts, renewed, replays, mishaps>>

RenewAfterReopen == RefreshIfStale("renewAgain", "again")

\* A refused token is renewed whatever its age, and the submit tried once more.
Authorize ==
  /\ stage = "authorize"
  /\ Refresh("last", "judge")
  /\ renewed' = TRUE
  /\ UNCHANGED <<backend, command, auto, cur, tries, outcome, disp, exit, file, server,
                 posts, replays, mishaps>>

-----------------------------------------------------------------------------
(* The end of a vector set, of an automatic resubmit and of a resubmit.    *)

ErrorOf(o) == CASE o = "auth" -> "SUBMIT_AUTH"
                [] o = "http" -> "SUBMIT_HTTP"
                [] OTHER -> "SUBMIT_ERROR"

\* run_demo takes over the word that an automatic resubmit left on file, and keeps
\* its own disposition when the resubmit failed.
Replaced(d) == IF IsError(d) THEN disp[cur]
               ELSE IF file[cur].status = "absent" THEN "SUBMITTED" ELSE file[cur].status

\* What follows the disposition d of the vector set in hand.
Conclude(d) ==
  CASE auto ->
         /\ Record(Replaced(d)) /\ auto' = FALSE /\ Goto("recovered")
         /\ UNCHANGED <<cur, command, exit>>
    [] command = "demo" /\ ~auto ->
         Record(d) /\ NextSet /\ UNCHANGED <<auto, command, exit>>
    [] OTHER ->
         /\ command' = "none" /\ Goto("idle")
         /\ exit' = IF IsError(d) THEN "error" ELSE "ok"
         /\ Record(d) /\ UNCHANGED <<auto, cur>>

\* Only a response the server accepted is polled for.
Judge ==
  /\ stage = "judge"
  /\ IF outcome = "ok"
     THEN Goto("poll") /\ tries' = 0 /\ UNCHANGED <<auto, command, cur, disp, exit>>
     ELSE Conclude(ErrorOf(outcome)) /\ tries' = tries
  /\ UNCHANGED <<backend, conn, age, outcome, file, server, posts, renewed, replays,
                 mishaps>>

LastPoll == tries + 1 = MaxPolls

\* poll_verdict, one sleep and one request: an answer that is no verdict is polled
\* again, the token is not renewed meanwhile.
Poll ==
  /\ stage = "poll"
  /\ age' \in age .. 2
  /\ \E c \in Calls :
       /\ conn' = c.conn
       /\ IF c.end # "reply"
          THEN Conclude("POLL_ERROR") /\ UNCHANGED <<outcome, tries>>
          ELSE \E r \in IF age' = 2 THEN {"auth"}
                        ELSE {"http", "garbage"} \cup ({server[cur]} \ {"none"}) :
            \/ r = "garbage" /\ Conclude("POLL_ERROR") /\ UNCHANGED <<outcome, tries>>
            \/ /\ r \in Verdicts
               /\ outcome' = r /\ Goto("verdict") /\ tries' = 0
               /\ UNCHANGED <<auto, command, cur, disp, exit>>
            \/ /\ r \in {"auth", "http", "received"}
               /\ UNCHANGED <<auto, command, cur, disp, exit>>
               /\ IF LastPoll
                  THEN outcome' = "POLL_TIMEOUT" /\ tries' = 0 /\ Goto("verdict")
                  ELSE tries' = tries + 1 /\ UNCHANGED <<stage, outcome>>
  /\ UNCHANGED <<backend, file, server, posts, renewed, replays, mishaps>>

\* The verdict goes to the status file, if it can be written.
RecordVerdict ==
  /\ stage = "verdict"
  /\ WriteStatus(outcome, "conclude")
  /\ UNCHANGED <<backend, command, auto, cur, conn, age, tries, outcome, disp, exit,
                 server, posts, renewed, replays>>

EndOfSet ==
  /\ stage = "conclude"
  /\ Conclude(outcome)
  /\ UNCHANGED <<backend, conn, age, tries, outcome, file, server, posts, renewed,
                 replays, mishaps>>

-----------------------------------------------------------------------------
(* run_demo's automatic resubmits and its summary; run_resubmit.           *)

\* One automatic resubmit for each set whose submit ended in a transport error.
Recover ==
  /\ stage = "recover"
  /\ IF disp[cur] = "SUBMIT_ERROR" THEN auto' = TRUE /\ Goto("load")
                                   ELSE auto' = auto /\ Goto("recovered")
  /\ UNCHANGED <<backend, command, cur, conn, age, tries, outcome, disp, exit, file,
                 server, posts, renewed, replays, mishaps>>

\* write_session_summary once all are done.
Recovered ==
  /\ stage = "recovered"
  /\ IF cur < N
     THEN cur' = cur + 1 /\ Goto("recover") /\ UNCHANGED <<command, exit>>
     ELSE /\ command' = "none" /\ Goto("idle") /\ cur' = 1
          /\ exit' = IF \E v \in VectorSets : IsError(disp[v]) THEN "error" ELSE "ok"
  /\ UNCHANGED <<backend, auto, conn, age, tries, outcome, disp, file, server, posts,
                 renewed, replays, mishaps>>

\* resubmit, given by the operator for any vector set, whatever its status.
RunResubmit ==
  /\ stage = "idle" /\ exit # "none" /\ replays > 0
  /\ replays' = replays - 1
  /\ command' = "resubmit" /\ exit' = "none" /\ Goto("load")
  /\ cur' \in VectorSets
  /\ posts' = [v \in VectorSets |-> 0]
  /\ disp' = [v \in VectorSets |-> "none"]
  /\ UNCHANGED <<backend, auto, conn, age, tries, outcome, file, server, renewed, mishaps>>

\* Nothing is sent without a response on file; the token is renewed with the login.
LoadResponse ==
  /\ stage = "load"
  /\ \/ /\ file[cur].response # "absent"
        /\ conn' \in Opened
        /\ Goto("login")
        /\ UNCHANGED <<auto, command, cur, disp, exit>>
     \/ /\ file[cur].response = "absent" \/ backend # "curl"
        /\ conn' = conn
        /\ Conclude("SUBMIT_ERROR")
  /\ UNCHANGED <<backend, age, tries, outcome, file, server, posts, renewed, replays,
                 mishaps>>

Login ==
  /\ stage = "login"
  /\ \E c \in Calls :
       /\ conn' = c.conn
       /\ \/ /\ c.end = "reply" /\ age' = 0 /\ renewed' = TRUE /\ Goto("replay")
             /\ UNCHANGED <<auto, command, cur, disp, exit>>
          \/ Conclude("SUBMIT_ERROR") /\ UNCHANGED <<age, renewed>>
  /\ UNCHANGED <<backend, tries, outcome, file, server, posts, replays, mishaps>>

-----------------------------------------------------------------------------
(* The environment.                                                        *)

\* The grader's verdict of each vector set, of both kinds.
Graded(v) == IF v % 2 = 1 THEN "passed" ELSE "failed"

Grade ==
  /\ \E v \in VectorSets :
       server[v] = "received" /\ server' = [server EXCEPT ![v] = Graded(v)]
  /\ UNCHANGED <<backend, command, auto, stage, cur, conn, age, tries, outcome, disp, exit,
                 file, posts, renewed, replays, mishaps>>

\* The process dies; a file it was writing may be cut, a post may have arrived.
ProcessDies ==
  /\ stage # "idle" /\ mishaps > 0 /\ mishaps' = mishaps - 1
  /\ \/ UNCHANGED <<file, server>>
     \/ stage = "keep" /\ file' = [file EXCEPT ![cur].response = "cut"] /\ server' = server
     \/ /\ stage \in {"pending", "mark", "verdict"}
        /\ file' = [file EXCEPT ![cur].status = "cut"] /\ server' = server
     \/ stage \in Attempts /\ Whole /\ age < 2 /\ Takes /\ file' = file
  /\ command' = "none" /\ auto' = FALSE /\ Goto("idle") /\ exit' = "died"
  /\ cur' = 1 /\ tries' = 0 /\ outcome' = "none" /\ renewed' = FALSE
  /\ conn' = "live" /\ age' = 0
  /\ UNCHANGED <<backend, disp, posts, replays>>

-----------------------------------------------------------------------------
AcvpNext ==
  \/ RunDemo \/ StartSet \/ Fetch \/ OpenSessionStore \/ Compute \/ KeepResponse
  \/ MarkPending \/ RenewBeforeSubmit \/ Submit \/ MarkSubmitted \/ Reopen
  \/ RenewAfterReopen \/ Authorize \/ Judge \/ Poll \/ RecordVerdict \/ EndOfSet
  \/ Recover \/ Recovered \/ RunResubmit \/ LoadResponse \/ Login \/ Grade \/ ProcessDies

AcvpSpec == AcvpInit /\ [][AcvpNext]_acvpVars

-----------------------------------------------------------------------------
(* Properties.                                                             *)

\* A directory whose status is PENDING can be replayed: its response is whole, whatever
\* death or failed write came between the two files. And a submit that demo-run gave up,
\* when no write of the run failed, has left the answers on file, and PENDING unless the
\* automatic resubmit got them accepted: the resubmit command that is printed will work.
PendingIsReplayable ==
  /\ \A v \in VectorSets : file[v].status = "PENDING" => file[v].response = "full"
  /\ command = "demo" /\ ~auto /\ mishaps = MaxMishaps =>
       \A v \in VectorSets :
         /\ disp[v] \in {"SUBMIT_AUTH", "SUBMIT_HTTP", "SUBMIT_ERROR"} =>
              file[v].response = "full" /\ file[v].status \in {"PENDING", "SUBMITTED"}
         /\ disp[v] \in {"SUBMIT_AUTH", "SUBMIT_HTTP"} => file[v].status = "PENDING"

\* What the status file and the dispositions say was accepted, was: SUBMITTED means
\* that the server has the answers, and a verdict is the one it gave.
AcceptedMeansReceived ==
  \A v \in VectorSets : \A word \in {file[v].status, disp[v]} :
    /\ word = "SUBMITTED" => server[v] # "none"
    /\ word \in Verdicts => server[v] = word

\* What the files of a vector set say may be relied on: answers that are to be submitted
\* again are there, whole, and nothing is called submitted or graded that the server does
\* not have or did not grade (submit_and_mark, poll_verdict, write_file).
RecordIsTrue == PendingIsReplayable /\ AcceptedMeansReceived

\* A submit is tried once more for a dead tunnel, once more for a refused token and once
\* more by the automatic resubmit, and never again in one run; and a vector set is given
\* up for a refused token only after the token was renewed, or could not be, since its
\* answers were computed.
SubmitsBounded ==
  /\ \A v \in VectorSets : posts[v] <= IF disp[v] = "none" THEN 3 ELSE 4
  /\ stage = "judge" /\ outcome = "auth" => renewed

\* Computed answers that are on file stay there, whole, whatever fails afterwards:
\* nothing is ever computed twice.
ResponseKept ==
  [][\A v \in VectorSets :
       file[v].response = "full" => file[v].response' = "full"]_acvpVars

\* The exit status of demo-run and resubmit tells a failure of the harness from a
\* verdict: a run that ends well has a verdict of the server for every vector set.
ExitMeansGraded ==
  exit = "ok" /\ mishaps = MaxMishaps =>
    \A v \in VectorSets : disp[v] \in Verdicts \cup {"none"}

=============================================================================
