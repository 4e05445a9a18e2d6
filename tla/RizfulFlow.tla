----------------------------- MODULE RizfulFlow -----------------------------
(***************************************************************************)
(* One run of core/money/rizfulProvision.ts (runRizfulFlow), with the      *)
(* mailbox of tempMail.ts and the browser connection of cdpBrowser.ts: an  *)
(* inbox, a page of its own in the shared browser, the signup form, the    *)
(* bot check, the mail, its link, and a one-time code that is exchanged    *)
(* for a wallet.  Module Rizful has the queue such runs come from.         *)
(*                                                                         *)
(* The browser, the mail service and Rizful are external: the browser, or  *)
(* the connection to it, may go at any time, a command of it may fail, the *)
(* page may never show what is waited for, and a reply of Rizful may be    *)
(* lost.                                                                   *)
(***************************************************************************)
EXTENDS Naturals

CONSTANTS
  Addresses,  \* bound: addresses tried for an inbox (five in the code)
  Clicks,     \* bound: clicks on the bot check (eight in the code)
  Polls       \* bound: looks at the page, or the inbox, within one deadline

Waits == {"bot", "submitted", "mail", "verified", "code"}
Drives == {"signup", "submit", "link", "token", "exchange"} \union Waits

VARIABLES
  at,       \* where the run is
  tries,    \* addresses, clicks or codes used up, whichever is being tried
  left,     \* looks left before the deadline of the wait the run is in
  up,       \* the browser answers on the connection
  conn,     \* the run's websocket to the browser
  context,  \* the browser context made for the run: none, held, returned, or refused:
            \* the browser was told to give it up, and did not
  account,  \* the account at Rizful: none, made or verified
  wallet,   \* Rizful has linked the wallet to the run's key
  result    \* what the run ended in: none, wallet or error

vars == <<at, tries, left, up, conn, context, account, wallet, result>>
site == <<account, wallet>>
browser == <<up, conn, context>>

TypeOK ==
  /\ at \in Drives \union {"inbox", "session", "connect", "context", "page",
                           "closeTarget", "dispose", "closeConn", "ended"}
  /\ tries \in 0..(Addresses + Clicks + 2) /\ left \in 0..Polls
  /\ up \in BOOLEAN /\ conn \in {"none", "open", "closed"}
  /\ context \in {"none", "held", "returned", "refused"}
  /\ account \in {"none", "made", "verified"} /\ wallet \in BOOLEAN
  /\ result \in {"none", "wallet", "error"}

Init ==
  /\ at = "inbox" /\ tries = 0 /\ left = 0 /\ up = TRUE /\ conn = "none" /\ context = "none"
  /\ account = "none" /\ wallet = FALSE /\ result = "none"

\* Entering a step sets the deadline anew and forgets the tries of the one before.
Go(to) == at' = to /\ tries' = 0 /\ left' = Polls
Again(to) == at' = to /\ tries' = tries + 1 /\ left' = Polls

\* A throw before there is a browser to give back.
Refuse == at' = "ended" /\ result' = "error" /\ UNCHANGED <<tries, left>>

\* A throw inside the try: the picture of the page is best effort, then finally closes.
Throw == at' = "closeTarget" /\ result' = "error" /\ UNCHANGED <<tries, left>>

-----------------------------------------------------------------------------
(* The inbox and the browser *)

\* createMailbox: a name that is refused is replaced by another, up to five.
Inbox ==
  /\ at = "inbox"
  /\ \/ Go("session") /\ UNCHANGED result
     \/ tries + 1 < Addresses /\ Again("inbox") /\ UNCHANGED result
     \/ Refuse  \* no domain, or the last name was refused
  /\ UNCHANGED <<browser, site>>

Session ==
  /\ at = "session"
  /\ (Go("connect") /\ UNCHANGED result) \/ Refuse
  /\ UNCHANGED <<browser, site>>

Connect ==
  /\ at = "connect"
  /\ \/ up /\ Go("context") /\ conn' = "open" /\ UNCHANGED <<up, context, result>>
     \/ Refuse /\ UNCHANGED browser
  /\ UNCHANGED site

\* (mutant) The connection of a page that did not open is left.
OpenFails_Leaves == Refuse /\ UNCHANGED browser
\* openBrowser: whatever fails once there is a connection, the connection is closed; a
\* browser context that was made by then stays behind in the browser.
OpenFails == Refuse /\ conn' = "closed" /\ UNCHANGED <<up, context>>

OpenContext ==
  /\ at = "context"
  /\ \/ up /\ Go("page") /\ context' = "held" /\ UNCHANGED <<up, conn, result>>
     \/ OpenFails
  /\ UNCHANGED site

OpenPage ==
  /\ at = "page"
  /\ \/ up /\ Go("signup") /\ UNCHANGED <<browser, result>>
     \/ OpenFails
  /\ UNCHANGED site

-----------------------------------------------------------------------------
(* Waiting: waitFor and waitForMessage *)

\* (mutant) The deadline counts from the last look.
LookedOnce_Restarts == UNCHANGED left
\* Every look that shows nothing, or fails, uses up time.
LookedOnce == left' = left - 1

Look ==
  /\ at \in Waits /\ left > 0 /\ LookedOnce
  /\ UNCHANGED <<at, tries, result, browser, site>>

\* What makes a wait end well; the mail does not come through the browser.
Shown ==
  /\ left > 0
  /\ at # "mail" => up
  /\ at \in {"submitted", "mail"} => account # "none"
  /\ at \in {"verified", "code"} => account = "verified"

-----------------------------------------------------------------------------
(* The flow *)

\* Any command to the browser may time out, and all fail once it has gone; a wait takes
\* such a failure for a look that shows nothing.
CommandFails ==
  /\ at \in {"signup", "submit", "link", "token"} /\ Throw
  /\ UNCHANGED <<browser, site>>

Signup ==  \* the form could not be filled: CommandFails
  /\ at = "signup" /\ up /\ Go("bot")
  /\ UNCHANGED <<result, browser, site>>

BotCheck ==
  /\ at = "bot"
  /\ \/ Shown /\ Go("submit") /\ UNCHANGED result
     \/ left = 0 /\ tries < Clicks /\ Again("bot") /\ UNCHANGED result
     \/ left = 0 /\ Throw  \* out of clicks, or the page could not be asked where to click
  /\ UNCHANGED <<browser, site>>

Submit ==
  /\ at = "submit" /\ up /\ Go("submitted")
  /\ account' \in {account, "made"}
  /\ UNCHANGED <<result, browser, wallet>>

\* The form took effect although the command that sent it had no answer.
SubmitUnanswered ==
  /\ at = "submit" /\ up /\ Throw /\ account' = "made"
  /\ UNCHANGED <<browser, wallet>>

Submitted ==
  /\ at = "submitted"
  /\ (Shown /\ Go("mail") /\ UNCHANGED result) \/ (left = 0 /\ Throw)
  /\ UNCHANGED <<browser, site>>

\* The message may not be readable, or carry no link.
Mail ==
  /\ at = "mail"
  /\ \/ Shown /\ Go("link") /\ UNCHANGED result
     \/ (left = 0 \/ Shown) /\ Throw
  /\ UNCHANGED <<browser, site>>

\* The link is opened and its button clicked; a page without one may say it is done.
FollowLink ==
  /\ at = "link" /\ up /\ Go("verified")
  /\ account' \in {account, "verified"}
  /\ UNCHANGED <<result, browser, wallet>>

Verified ==
  /\ at = "verified"
  /\ (Shown /\ Go("token") /\ UNCHANGED result) \/ (left = 0 /\ Throw)
  /\ UNCHANGED <<browser, site>>

\* The page of the one-time code; a page that asks for a login instead: CommandFails.
OpenToken ==
  /\ at = "token" /\ up /\ at' = "code" /\ left' = Polls
  /\ UNCHANGED <<tries, result, browser, site>>

ReadCode ==
  /\ at = "code"
  /\ \/ Shown /\ at' = "exchange" /\ UNCHANGED <<tries, left, result>>
     \/ (left = 0 \/ Shown) /\ Throw  \* no code, or none that can be read
  /\ UNCHANGED <<browser, site>>

\* A failed exchange, or one whose reply is lost, gets one fresh code.
Exchange ==
  /\ at = "exchange" /\ wallet' \in {wallet, TRUE}
  /\ \/ wallet' /\ at' = "closeTarget" /\ result' = "wallet" /\ UNCHANGED <<tries, left>>
     \/ tries = 0 /\ Again("token") /\ UNCHANGED result
     \/ tries = 1 /\ Throw
  /\ UNCHANGED <<browser, account>>

-----------------------------------------------------------------------------
(* finally: the page, its context, the connection *)

CloseTarget ==
  /\ at = "closeTarget" /\ at' = "dispose"
  /\ UNCHANGED <<tries, left, result, browser, site>>

\* (mutant) One command fewer: closing the page is taken to be enough.
Dispose_PageOnly == UNCHANGED context
\* A command that fails, or has no answer in time, is swallowed: the browser may keep the
\* context, and does if the connection to it is gone.
Dispose ==
  IF context = "held" THEN context' = "refused" \/ (up /\ context' = "returned")
  ELSE UNCHANGED context

DisposeContext ==
  /\ at = "dispose" /\ at' = "closeConn" /\ Dispose
  /\ UNCHANGED <<tries, left, result, up, conn, site>>

CloseConn ==
  /\ at = "closeConn" /\ at' = "ended" /\ conn' = "closed"
  /\ UNCHANGED <<tries, left, result, up, context, site>>

\* The connection goes, or the browser with everything it held.
BrowserGoes ==
  /\ up /\ at # "ended" /\ up' = FALSE
  /\ \/ UNCHANGED context
     \/ context \in {"held", "refused"} /\ context' = "returned"
  /\ UNCHANGED <<at, tries, left, conn, result, site>>

Ended == at = "ended" /\ UNCHANGED vars

Step ==
  \/ Inbox \/ Session \/ Connect \/ OpenContext \/ OpenPage
  \/ Look \/ CommandFails \/ Signup \/ BotCheck \/ Submit \/ SubmitUnanswered \/ Submitted
  \/ Mail \/ FollowLink \/ Verified \/ OpenToken \/ ReadCode \/ Exchange
  \/ CloseTarget \/ DisposeContext \/ CloseConn

Next == Step \/ BrowserGoes \/ Ended

Spec == Init /\ [][Next]_vars

\* Fairness: every command and request of the code has a timeout, so the run goes on.
FairSpec == Spec /\ WF_vars(Step)

-----------------------------------------------------------------------------
(* Properties *)

\* However the page, the mail and the browser behave, a run comes to an end; the queue
\* behind it waits for that (plugins/rizful.ts runs one at a time).
FlowEnds == <>(at = "ended")

\* A run that got as far as a page gives back what it has of the shared browser, whichever
\* step threw: its connection is closed, and before that the browser was told to give up the
\* context, which it may not do (a page that never opened can leave its context untold, see
\* README).  A connection is closed on every path.
LeavesNothingOpen ==
  at = "ended" =>
    /\ conn # "open"
    /\ account # "none" => context \in {"returned", "refused"}
=============================================================================
