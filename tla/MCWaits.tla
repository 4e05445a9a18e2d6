------------------------------- MODULE MCWaits --------------------------------
(***************************************************************************)
(* That nobody waits for ever, for TLC: payments out of a Blink or CLINK   *)
(* wallet, the Rizful queue, one of its runs, the subscription to the      *)
(* platform wallet, a look for payments while an account is read and a     *)
(* request for an allowance, which share no variable, in one state space.  *)
(* `which` is chosen once and for all; the components it does not name     *)
(* rest in their initial states, so that each one's behaviours are exactly *)
(* those of its own specification. The variables of a component carry its  *)
(* letter.                                                                 *)
(***************************************************************************)
EXTENDS Naturals

CONSTANTS
  MaxSends, Lane, Surface, Batch, Garbled,
  MaxRuns, MaxConns, Posts, Relinks,
  Addresses, Clicks, Polls,
  MaxPause,
  Reads, MaxLooks,
  Requests

MCLane == <<"clink", "blink", "blink">>
MCSurface == <<"pay", "transfer", "withdraw">>

Components == {"send", "link", "flow", "notify", "look", "allow"}

VARIABLES
  which,
  sRow, sWallet, sCode, sTold, sClaimed, sExpired, sReceipts,
  rRow, rSaved, rMade, rQueue, rActive, rJob, rLate, rPost, rRelink,
  fAt, fTries, fLeft, fUp, fConn, fContext, fAccount, fWallet, fResult,
  nAt, nByTimer, nTimer, nPause, nSubscribed, nStopped, nUp,
  lLooks, lRunning, lJoined, lRecent, lRead,
  aReq, aWallet, aAllowed, aClient, aReply

Send == INSTANCE WalletSends WITH
  row <- sRow, wallet <- sWallet, code <- sCode, told <- sTold, claimed <- sClaimed,
  expired <- sExpired, receipts <- sReceipts,
  Sends <- 1..MaxSends

Link == INSTANCE Rizful WITH
  row <- rRow, saved <- rSaved, made <- rMade, queue <- rQueue, active <- rActive,
  job <- rJob, late <- rLate, post <- rPost, relink <- rRelink

Flow == INSTANCE RizfulFlow WITH
  at <- fAt, tries <- fTries, left <- fLeft, up <- fUp, conn <- fConn,
  context <- fContext, account <- fAccount, wallet <- fWallet, result <- fResult

Notify == INSTANCE Notifications WITH
  at <- nAt, byTimer <- nByTimer, timer <- nTimer, pause <- nPause,
  subscribed <- nSubscribed, stopped <- nStopped, up <- nUp

Look == INSTANCE Reconciles WITH
  looks <- lLooks, running <- lRunning, joined <- lJoined, recent <- lRecent,
  read <- lRead

Allow == INSTANCE Allowances WITH
  req <- aReq, wallet <- aWallet, allowed <- aAllowed, client <- aClient, reply <- aReply

sendVars == <<sRow, sWallet, sCode, sTold, sClaimed, sExpired, sReceipts>>
linkVars == <<rRow, rSaved, rMade, rQueue, rActive, rJob, rLate, rPost, rRelink>>
flowVars == <<fAt, fTries, fLeft, fUp, fConn, fContext, fAccount, fWallet,
             fResult>>
notifyVars == <<nAt, nByTimer, nTimer, nPause, nSubscribed, nStopped, nUp>>
lookVars == <<lLooks, lRunning, lJoined, lRecent, lRead>>
allowVars == <<aReq, aWallet, aAllowed, aClient, aReply>>
all == <<which, sendVars, linkVars, flowVars, notifyVars, lookVars, allowVars>>

-----------------------------------------------------------------------------
(* The specification *)

WaitsInit ==
  /\ which \in Components
  /\ Send!Init /\ Link!Init /\ Flow!Init /\ Notify!Init /\ Look!Init /\ Allow!Init
  /\ (which # "notify" => nUp)

Rest(component, vars) == IF which = component THEN TRUE ELSE UNCHANGED vars

Step(component, action) ==
  /\ which = component /\ action /\ UNCHANGED which
  /\ Rest("send", sendVars) /\ Rest("link", linkVars) /\ Rest("flow", flowVars)
  /\ Rest("notify", notifyVars) /\ Rest("look", lookVars) /\ Rest("allow", allowVars)

WaitsNext ==
  \/ Step("send", Send!Next) \/ Step("link", Link!Next) \/ Step("flow", Flow!Next)
  \/ Step("notify", Notify!Next) \/ Step("look", Look!Next) \/ Step("allow", Allow!Next)

\* `which` never changes, so a fairness condition on a step of one component or another is
\* the one of the component it names: these are the FairSpecs of all six.
WaitsFairSpec ==
  /\ WaitsInit /\ [][WaitsNext]_all
  /\ \A s \in 1..MaxSends : WF_all(Step("send", Send!Reconcile(s)))
  /\ \A r \in 1..MaxRuns :
       WF_all(Step("link", Link!GoesStale(r))) /\ WF_all(Step("link", Link!JobStep(r)))
  /\ WF_all(\/ Step("flow", Flow!Step) \/ Step("notify", Notify!Step)
            \/ Step("look", Look!Timers) \/ Step("allow", Allow!Ends))

-----------------------------------------------------------------------------
(* Properties *)

\* Every component's state has its type.
TypesOK ==
  /\ Send!TypeOK /\ Link!TypeOK /\ Flow!TypeOK /\ Notify!TypeOK /\ Look!TypeOK /\ Allow!TypeOK

\* WalletSends and Allowances: what the books say of a send, and what a merchant is told of
\* an allowance, is what happened at the wallet.
VerdictsAreTrue == Send!VerdictMatchesWallet /\ Allow!ToldIsTrue

\* WalletSends: a send out of a Blink or CLINK wallet keeps the promise of PayCall.
SendKeepsPromise == Send!SendKeepsPromise

\* WalletSends: a Blink payment that was made is booked, though nobody heard its reply.
PaidSendCompletes == Send!PaidSendCompletes

\* Rizful and RizfulFlow: one run at a time has the browser, a row points at its own run's
\* wallet, and a run gives back what it opened in the browser.
RunsKeepApart == Link!RunsAreSerial /\ Link!LinkIsItsWallet /\ Flow!LeavesNothingOpen

\* Rizful: an account's run never blocks the next for good, and the queue moves.
RunsGoOn == Link!NeverBlockedForGood /\ Link!QueueMoves

\* RizfulFlow, Reconciles, Allowances: a browser, a lookup or a wallet that never answers
\* keeps no run and no request waiting for ever.
WaitsEnd ==
  /\ which = "flow" => Flow!FlowEnds
  /\ Look!ReadsAreAnswered /\ Allow!RequestsAreAnswered

\* Reconciles: reads that came together see what one look finds.
ParallelReadsSeeIt == Look!ParallelReadsSeeIt

\* Notifications: once the relay stays up the server is subscribed.
EventuallySubscribed == which = "notify" => Notify!EventuallySubscribed
=============================================================================
