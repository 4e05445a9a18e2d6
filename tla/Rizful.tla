------------------------------- MODULE Rizful -------------------------------
(***************************************************************************)
(* One-click wallets: plugins/rizful.ts, which queues runs and works them  *)
(* off one at a time, and core/money/rizfulProvision.ts, which opens an    *)
(* account at Rizful and brings back the connection of its wallet.         *)
(*                                                                         *)
(* The runs are those of one merchant account: runs of other accounts only *)
(* lengthen the queue, and how long anything takes is left open here.  The *)
(* queue and the flag `active` live in the process and a restart loses     *)
(* them, while the rows stay.  The progress writes are not waited for, so  *)
(* one can land after the write that ends its run.                         *)
(***************************************************************************)
EXTENDS Naturals, Sequences

CONSTANTS
  MaxRuns,   \* bound: runs ever made; the wallet of run r is called r too
  MaxConns,  \* bound: connections ever saved
  Posts,     \* bound: requests for a run in progress at once
  Relinks    \* bound: requests to link a removed wallet again in progress at once

Runs == 1..MaxRuns
Conns == 1..MaxConns

VARIABLES
  row,     \* rizful_provisions, in the order of created_at; stale and young are what its
           \* times say: not updated for 15 minutes, created within the last 10
  saved,   \* account_connections: the wallet of each, 0 for a row not made or removed
  made,    \* how many runs and connections have been inserted
  queue,   \* runs waiting in the process
  active,  \* the flag that keeps a second drain out
  job,     \* how far the process is with each run
  late,    \* runs whose last progress write is on its way to the database
  post,    \* requests between their check and their insert
  relink   \* requests to link again, with the run and the connection found

vars == <<row, saved, made, queue, active, job, late, post, relink>>
requests == <<post, relink>>
process == <<queue, active, job, late>>

NoRow == [status |-> "none", stale |-> FALSE, young |-> FALSE, uri |-> FALSE, conn |-> 0]
NoLink == [at |-> "none", run |-> 0, conn |-> 0]
Idle == [at |-> "none", conn |-> 0]

TypeOK ==
  /\ row \in [Runs -> [status: {"none", "pending", "running", "done", "error"}, stale: BOOLEAN,
                       young: BOOLEAN, uri: BOOLEAN, conn: 0..MaxConns]]
  /\ saved \in [Conns -> 0..MaxRuns] /\ made \in [runs: 0..MaxRuns, conns: 0..MaxConns]
  /\ queue \in Seq(Runs) /\ active \in BOOLEAN
  /\ job \in [Runs -> [at: {"none", "starts", "flow", "probe", "save", "write", "fail"}, conn: 0..MaxConns]]
  /\ late \subseteq Runs /\ post \in [Posts -> BOOLEAN]
  /\ relink \in [Relinks -> [at: {"none", "save", "write"}, run: 0..MaxRuns, conn: 0..MaxConns]]

Init ==
  /\ row = [r \in Runs |-> NoRow] /\ saved = [c \in Conns |-> 0]
  /\ made = [runs |-> 0, conns |-> 0]
  /\ queue = <<>> /\ active = FALSE /\ job = [r \in Runs |-> Idle] /\ late = {}
  /\ post = [p \in Posts |-> FALSE] /\ relink = [k \in Relinks |-> NoLink]

Newest(rs) == CHOOSE r \in rs : \A s \in rs : s <= r

-----------------------------------------------------------------------------
(* Asking for a run *)

Active(r) == row[r].status \in {"pending", "running"}

\* (mutant) A run that never finished blocks for good.
Blocked_NoAge == \E r \in Runs : Active(r)
\* The newest row not finished is less than 15 minutes old.
Blocked ==
  LET rs == {r \in Runs : Active(r)} IN rs # {} /\ ~row[Newest(rs)].stale

\* The newest wallet made in the last 10 minutes is still linked.
Cooling ==
  LET rs == {r \in Runs : row[r].status = "done" /\ row[r].young}
  IN rs # {} /\ row[Newest(rs)].conn # 0

PostChecks(p) ==
  /\ ~post[p] /\ ~Blocked /\ ~Cooling
  /\ post' = [post EXCEPT ![p] = TRUE]
  /\ UNCHANGED <<row, saved, made, process, relink>>

\* (mutant) Every drain takes a run.
Takes_Always(busy, q) == q # <<>>
\* drain returns at once while another is active.
Takes(busy, q) == ~busy /\ q # <<>>

\* drain, with the queue q, and what the jobs were before.
Drain(busy, q, jobs) ==
  IF Takes(busy, q)
    THEN /\ active' = TRUE /\ queue' = Tail(q)
         /\ job' = [jobs EXCEPT ![Head(q)] = [Idle EXCEPT !.at = "starts"]]
    ELSE active' = busy /\ queue' = q /\ job' = jobs

PostInserts(p) ==
  LET r == made.runs + 1 IN
  /\ post[p] /\ made.runs < MaxRuns
  /\ made' = [made EXCEPT !.runs = r]
  /\ row' = [row EXCEPT ![r] = [NoRow EXCEPT !.status = "pending", !.young = TRUE]]
  /\ Drain(active, Append(queue, r), job)
  /\ post' = [post EXCEPT ![p] = FALSE]
  /\ UNCHANGED <<saved, late, relink>>

-----------------------------------------------------------------------------
(* Working a run off *)

Goes(r, at) == job' = [job EXCEPT ![r].at = at]
Progress(r) == [row EXCEPT ![r].status = "running", ![r].stale = FALSE]

\* "Starting" is waited for; like every progress write it may fail unnoticed.
Starts(r) ==
  /\ job[r].at = "starts" /\ Goes(r, "flow")
  /\ row' \in {row, Progress(r)}
  /\ UNCHANGED <<saved, made, queue, active, late, requests>>

\* A step of the flow: inbox, signup, bot check, mail, verification, code, exchange.
StepSent(r) ==
  /\ job[r].at = "flow" /\ late' = late \union {r}
  /\ UNCHANGED <<row, saved, made, queue, active, job, requests>>

StepLands(r) ==
  /\ r \in late /\ late' = late \ {r}
  /\ row' \in {row, Progress(r)}
  /\ UNCHANGED <<saved, made, queue, active, job, requests>>

\* The flow throws, or brings the wallet; then the wallet answers the probe, or not.
FlowEnds(r) ==
  /\ job[r].at \in {"flow", "probe"}
  /\ \E ok \in BOOLEAN :
       Goes(r, IF ~ok THEN "fail" ELSE IF job[r].at = "flow" THEN "probe" ELSE "save")
  /\ UNCHANGED <<row, saved, made, queue, active, late, requests>>

\* (mutant) Any wallet the account has saved will do.
Dup_AnyWallet(w) == {c \in Conns : saved[c] # 0}
\* The connections with this URI already.
Dup(w) == {c \in Conns : saved[c] = w}

\* The connection a wallet gets: one it has, else a new row.
Links(w, c) ==
  IF Dup(w) # {} THEN c \in Dup(w) /\ UNCHANGED <<saved, made>>
  ELSE /\ c = made.conns + 1 /\ c \in Conns
       /\ saved' = [saved EXCEPT ![c] = w] /\ made' = [made EXCEPT !.conns = c]

Saves(r) ==
  /\ job[r].at = "save"
  /\ \E c \in Conns : Links(r, c) /\ job' = [job EXCEPT ![r] = [at |-> "write", conn |-> c]]
  /\ UNCHANGED <<row, queue, active, late, requests>>

\* (mutant) The queue is left alone when a run is over.
AfterRun_NoDrain(r) == active' = FALSE /\ job' = [job EXCEPT ![r] = Idle] /\ UNCHANGED queue
\* The flag is dropped and the next run taken.
AfterRun(r) == Drain(FALSE, queue, [job EXCEPT ![r] = Idle])

\* The row takes the login, the URI and the connection, unless the connection has been
\* removed or the write fails: either way the run is an error.
Writes(r) ==
  /\ job[r].at = "write"
  /\ \/ /\ saved[job[r].conn] # 0 /\ AfterRun(r)
        /\ row' = [row EXCEPT ![r] = [@ EXCEPT !.status = "done", !.stale = FALSE, !.uri = TRUE,
                                               !.conn = job[r].conn]]
     \/ Goes(r, "fail") /\ UNCHANGED <<row, queue, active>>
  /\ UNCHANGED <<saved, made, late, requests>>

Fails(r) ==
  /\ job[r].at = "fail" /\ AfterRun(r)
  /\ row' \in {row, [row EXCEPT ![r].status = "error", ![r].stale = FALSE]}
  /\ UNCHANGED <<saved, made, late, requests>>

-----------------------------------------------------------------------------
(* Linking a removed wallet again *)

\* DELETE /api/connections/:id, and the database's ON DELETE SET NULL.
Remove(c) ==
  /\ saved[c] # 0 /\ saved' = [saved EXCEPT ![c] = 0]
  /\ row' = [r \in Runs |-> IF row[r].conn = c THEN [row[r] EXCEPT !.conn = 0] ELSE row[r]]
  /\ UNCHANGED <<made, process, requests>>

\* The newest finished run without a connection, and a connection that has its URI.
RelinkReads(k) ==
  LET rs == {r \in Runs : row[r].status = "done" /\ row[r].conn = 0 /\ row[r].uri}
      r == Newest(rs) IN
  /\ relink[k] = NoLink /\ rs # {}
  /\ relink' = [relink EXCEPT ![k] =
       IF Dup(r) = {} THEN [NoLink EXCEPT !.at = "save", !.run = r]
       ELSE [at |-> "write", run |-> r, conn |-> CHOOSE c \in Dup(r) : TRUE]]
  /\ UNCHANGED <<row, saved, made, process, post>>

\* The wallet answers the probe and is saved; none was found when the request looked.
RelinkSaves(k) ==
  LET c == made.conns + 1 IN
  /\ relink[k].at = "save" /\ c \in Conns
  /\ saved' = [saved EXCEPT ![c] = relink[k].run] /\ made' = [made EXCEPT !.conns = c]
  /\ relink' = [relink EXCEPT ![k].at = "write", ![k].conn = c]
  /\ UNCHANGED <<row, process, post>>

\* The probe fails, or the insert.
RelinkFails(k) ==
  /\ relink[k].at = "save" /\ relink' = [relink EXCEPT ![k] = NoLink]
  /\ UNCHANGED <<row, saved, made, process, post>>

\* A connection removed meanwhile fails the write.
RelinkWrites(k) ==
  /\ relink[k].at = "write" /\ relink' = [relink EXCEPT ![k] = NoLink]
  /\ row' = IF saved[relink[k].conn] = 0 THEN row
            ELSE [row EXCEPT ![relink[k].run].conn = relink[k].conn, ![relink[k].run].stale = FALSE]
  /\ UNCHANGED <<saved, made, process, post>>

-----------------------------------------------------------------------------
(* Time, restarts and the specification *)

GoesStale(r) ==
  /\ Active(r) /\ ~row[r].stale /\ row' = [row EXCEPT ![r].stale = TRUE]
  /\ UNCHANGED <<saved, made, process, requests>>

Ages(r) ==
  /\ row[r].young /\ row' = [row EXCEPT ![r].young = FALSE]
  /\ UNCHANGED <<saved, made, process, requests>>

Restart ==
  /\ queue' = <<>> /\ active' = FALSE /\ job' = [r \in Runs |-> Idle] /\ late' = {}
  /\ post' = [p \in Posts |-> FALSE] /\ relink' = [k \in Relinks |-> NoLink]
  /\ UNCHANGED <<row, saved, made>>

JobStep(r) == Starts(r) \/ FlowEnds(r) \/ Saves(r) \/ Writes(r) \/ Fails(r)

Next ==
  \/ \E p \in Posts : PostChecks(p) \/ PostInserts(p)
  \/ \E r \in Runs : JobStep(r) \/ StepSent(r) \/ StepLands(r) \/ GoesStale(r) \/ Ages(r)
  \/ \E c \in Conns : Remove(c)
  \/ \E k \in Relinks : RelinkReads(k) \/ RelinkSaves(k) \/ RelinkFails(k) \/ RelinkWrites(k)
  \/ Restart

\* Time passes, and every call of a run has a time limit.
Fairness == \A r \in Runs : WF_vars(GoesStale(r)) /\ WF_vars(JobStep(r))

Spec == Init /\ [][Next]_vars /\ Fairness

-----------------------------------------------------------------------------
(* Properties *)

\* "Runs are serialized in-process": one run at a time has the browser, whatever
\* requests, failures and restarts come between.
RunsAreSerial == \A r, s \in Runs : job[r].at # "none" /\ job[s].at # "none" => r = s

\* The connection a run's row points at is that run's wallet, though it was removed,
\* linked again, or removed while it was being linked.
LinkIsItsWallet == \A r \in Runs : row[r].conn # 0 => saved[row[r].conn] = r

\* "A run older than 15 minutes that never finished reads as interrupted instead of
\* blocking forever": the merchant can ask again, also after a restart.
NeverBlockedForGood == Blocked ~> ~Blocked

\* A queued run is taken, or lost with the process: none waits behind a run that is over.
QueueMoves == \A r \in Runs :
  (\E i \in DOMAIN queue : queue[i] = r) ~> (\A i \in DOMAIN queue : queue[i] # r)

\* "One active run per account keeps a double-click from creating two accounts".
OneRunPerAccount ==
  LET inHand == {r \in Runs : job[r].at # "none" \/ \E i \in DOMAIN queue : queue[i] = r}
  IN \A r, s \in inHand : r = s
=============================================================================
