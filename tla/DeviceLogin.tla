---------------------------- MODULE DeviceLogin ----------------------------
(***************************************************************************)
(* One run of the device flow: a device code is requested, a headless      *)
(* browser is led through the pages of GitHub and of the SSO provider, and *)
(* the token is polled for.  The pages are external: an orderly site shows *)
(* what belongs to each page and moves on when it is told to; any other    *)
(* may go anywhere at any time, and show or hide anything.                 *)
(***************************************************************************)
EXTENDS Naturals

CONSTANTS
  Sites,      \* subset of {"orderly", "any"}
  Intervals,  \* seconds GitHub may ask to leave between two polls
  ExpiresIn   \* expires_in of a device code

ASSUME DeviceAssumption ==
  Sites \subseteq {"orderly", "any"} /\ Intervals \subseteq Nat /\ ExpiresIn \in Nat \ {0}

VARIABLES
  site,        \* which kind of site it is
  provider,    \* ssoProvider of the task
  debug,       \* debugArtifacts
  pc,          \* where the run is
  stage,       \* which of the two logins of the flow it is in
  attempt,     \* of requestDeviceCode, then of the wait for the SSO page
  page,        \* where the browser is
  browser,     \* whether there is one
  tracing,     \* whether it is traced
  signedIn,    \* whether the site knows who it is
  entered,     \* whether the code was entered
  authorized,  \* whether the device was confirmed
  faulty,      \* history: a step failed for no fault of the page
  asked,       \* history: the interval GitHub asked for last
  interval,    \* the one the run keeps
  elapsed,     \* time since polling began
  result       \* what the run ends with

deviceVars == <<site, provider, debug, pc, stage, attempt, page, browser, tracing, signedIn,
                entered, authorized, faulty, asked, interval, elapsed, result>>
fixed      == <<site, provider, debug>>
polling    == <<asked, interval, elapsed>>
told       == <<signedIn, entered>>

GitHubPages == {"login", "select", "device", "interstitial", "authorize", "github"}
AzurePages  == {"azure user", "azure password", "azure stay"}
SitePages   == GitHubPages \cup AzurePages \cup {"sso", "elsewhere"}

IsGitHub(p) == p \in GitHubPages
\* isSsoUrl and hasKnownProviderUrl: the page of a custom provider is known by its URL.
IsSso(p)    == p = "sso" /\ provider = "custom"
IsKnown(p)  == p \in AzurePages /\ provider = "azure"

\* The lists of candidates: which of the controls that are looked for a page of an orderly
\* site has.
Controls == [p \in SitePages |->
  CASE p = "login" -> {"github login"} [] p = "select" -> {"account"}
    [] p = "device" -> {"device code"} [] p = "interstitial" -> {"github sso"}
    [] p = "authorize" -> {"authorize"} [] p = "sso" -> {"sso form"}
    [] p \in AzurePages -> {p} [] OTHER -> {}]

BrowserSteps == {"open", "select before", "form", "github login", "sso needed", "sso page",
                 "sso settled", "azure password", "azure stay", "return", "select after", "check",
                 "select code", "code form", "wait code", "submit", "authorize", "confirm"}

DeviceTypeOK ==
  /\ site \in Sites /\ provider \in {"custom", "azure"} /\ debug \in BOOLEAN
  /\ pc \in BrowserSteps \cup {"code", "launch", "caught", "close", "poll", "asking", "ended"}
  /\ stage \in {"before", "after"} /\ attempt \in 1..3
  /\ page \in SitePages \cup {"none"}
  /\ {browser, tracing, signedIn, entered, authorized, faulty} \subseteq BOOLEAN
  /\ {asked, interval, elapsed} \subseteq Nat
  /\ result \in {"none", "token", "error"}

DeviceInit ==
  /\ site \in Sites /\ provider \in {"custom", "azure"} /\ debug \in BOOLEAN
  /\ pc = "code" /\ stage = "before" /\ attempt = 1 /\ page = "none"
  /\ browser = FALSE /\ tracing = FALSE /\ signedIn = FALSE /\ entered = FALSE /\ authorized = FALSE
  /\ faulty = FALSE
  /\ asked = 0 /\ interval = 0 /\ elapsed = 0 /\ result = "none"

-----------------------------------------------------------------------------
(* The browser. *)

Goes(to) == pc' = to

Provider == IF provider = "azure" THEN "azure user" ELSE "sso"

\* Where a click, or a form that is sent, leads on an orderly site.
Onward(p) ==
  CASE p = "login" -> {"interstitial", Provider}
    [] p = "interstitial" -> {Provider}
    [] p = "azure user" -> {"azure password"}
    [] p = "azure password" -> {"azure stay"} \cup IF entered THEN {"authorize"} ELSE {"select", "device"}
    [] p \in {"sso", "azure stay"} -> IF entered THEN {"authorize"} ELSE {"select", "device"}
    [] p = "select" -> {"device"}
    [] p = "device" -> IF signedIn THEN {"authorize"} ELSE {"login"}
    [] OTHER -> {"github"}

Leads(p) == IF site = "orderly" THEN Onward(p) ELSE SitePages
Shows(control, seen) == IF site = "orderly" THEN seen = (control \in Controls[page]) ELSE TRUE

\* Between two steps, or during a wait, the page of another site may change by itself.
SiteMoves ==
  /\ site = "any" /\ pc \in BrowserSteps
  /\ page' \in SitePages
  /\ UNCHANGED <<fixed, pc, stage, attempt, browser, tracing, told, authorized, faulty, polling, result>>

Stays  == UNCHANGED <<fixed, page, browser, tracing, told, authorized, faulty, polling, result>>
Clicks ==
  /\ page' \in Leads(page)
  /\ signedIn' = (signedIn \/ page \in {"sso", "azure password"})
  /\ entered' = (entered \/ page = "device")
  /\ UNCHANGED <<fixed, browser, tracing, authorized, faulty, polling, result>>

\* What a step throws is caught; faults are of the browser or the network.
Throws == Goes("caught") /\ Stays /\ UNCHANGED <<stage, attempt>>
Fault ==
  /\ pc \in BrowserSteps
  /\ Goes("caught") /\ faulty' = TRUE
  /\ UNCHANGED <<fixed, stage, attempt, page, browser, tracing, told, authorized, polling, result>>

Launch ==
  /\ pc = "launch"
  /\ Goes("open") /\ browser' = TRUE /\ tracing' = debug
  /\ UNCHANGED <<fixed, stage, attempt, page, told, authorized, faulty, polling, result>>

\* The browser may be there when its context or its trace is refused, and traced when its page is.
LaunchFails ==
  /\ pc = "launch"
  /\ Goes("caught") /\ faulty' = TRUE /\ browser' \in BOOLEAN
  /\ tracing' \in {FALSE, browser' /\ debug}
  /\ UNCHANGED <<fixed, stage, attempt, page, told, authorized, polling, result>>

OpenDevicePage ==
  /\ pc = "open" /\ Goes("select before")
  /\ page' \in IF site = "orderly" THEN {"login", "device"} ELSE SitePages
  /\ UNCHANGED <<fixed, stage, attempt, browser, tracing, told, authorized, faulty, polling, result>>

\* selectGitHubDeviceAccountIfPresent, in three places.
SelectAccount(here, then) ==
  /\ pc = here /\ UNCHANGED <<stage, attempt>>
  /\ \/ page # "select" /\ Goes(then) /\ Stays
     \/ page = "select" /\ Shows("account", TRUE) /\ Goes(then) /\ Clicks
     \/ page = "select" /\ Shows("account", FALSE) /\ Throws

LoginDone == IF stage = "before" THEN "select code" ELSE "authorize"

\* completeLoginIfNeeded: no login is needed where the code can be entered.
LookForCodeForm(seen) ==
  /\ pc = "form" /\ Shows("device code", seen)
  /\ Goes(IF seen THEN LoginDone ELSE "github login")
  /\ Stays /\ UNCHANGED <<stage, attempt>>

SsoNeeded == IsSso(page) \/ page = "interstitial" \/ IsKnown(page)

CompleteGitHubLogin(seen) ==
  /\ pc = "github login" /\ UNCHANGED <<stage, attempt>>
  /\ \/ (IsSso(page) \/ IsKnown(page)) /\ Goes("sso needed") /\ Stays
     \/ ~IsSso(page) /\ ~IsKnown(page) /\ ~IsGitHub(page) /\ Throws
     \/ IsGitHub(page) /\ Shows("github login", seen)
          /\ IF seen THEN Goes("sso page") /\ Clicks ELSE Goes("sso needed") /\ Stays

StartSso ==
  /\ pc = "sso needed" /\ Goes(IF SsoNeeded THEN "sso page" ELSE "check")
  /\ Stays /\ UNCHANGED <<stage, attempt>>

\* Mutant: the page of GitHub on the way to the provider is only waited for.
MutantContinues == UNCHANGED <<page, told>>

\* continueGitHubSsoIfPresent
Continues == IF page = "interstitial" THEN Shows("github sso", TRUE) /\ page' \in Leads(page) /\ UNCHANGED told
             ELSE UNCHANGED <<page, told>>

\* Mutant: the tries are not counted.
MutantNextTry == attempt

NextTry == attempt + 1

\* completeSsoLogin, as long as it is not at the provider: the code can be entered after all,
\* or the redirect is waited for, twice at most.
AwaitSso(coded, reached) ==
  /\ pc = "sso page" /\ attempt <= 2 /\ ~IsSso(page) /\ ~IsKnown(page)
  /\ Shows("device code", coded)
  /\ UNCHANGED <<fixed, stage, browser, tracing, authorized, faulty, polling, result>>
  /\ IF coded THEN Goes("select after") /\ UNCHANGED <<page, told, attempt>>
     ELSE /\ Continues
          /\ site = "orderly" => reached = SsoNeeded'
          /\ Goes(IF reached THEN "sso page" ELSE "select after")
          /\ attempt' = IF reached THEN NextTry ELSE attempt

SsoControlMissing ==
  pc = "sso page" /\ page = "interstitial" /\ Shows("github sso", FALSE) /\ Throws

SsoPageReached ==
  /\ pc = "sso page" /\ (attempt = 3 \/ IsSso(page) \/ IsKnown(page))
  /\ Goes(IF IsSso(page) \/ IsKnown(page) THEN "sso settled" ELSE "select after")
  /\ Stays /\ UNCHANGED <<stage, attempt>>

\* The forms of the providers: each control is found, or the step throws.
Fills(here, control, then) ==
  /\ pc = here
  /\ \/ Shows(control, TRUE) /\ Goes(then) /\ Clicks /\ UNCHANGED <<stage, attempt>>
     \/ Shows(control, FALSE) /\ Throws

CompleteSso ==
  \/ provider = "custom" /\ Fills("sso settled", "sso form", "return")
  \/ provider = "azure" /\ Fills("sso settled", "azure user", "azure password")
  \/ Fills("azure password", "azure password", "azure stay")

StaySignedIn(seen) ==
  /\ pc = "azure stay" /\ Shows("azure stay", seen)
  /\ Goes("return") /\ UNCHANGED <<stage, attempt>>
  /\ IF seen THEN Clicks ELSE Stays

\* A wait for GitHub ends there, or throws at the timeout.
WaitForGitHub(here, then) ==
  /\ pc = here
  /\ \/ IsGitHub(page) /\ Goes(then) /\ Stays /\ UNCHANGED <<stage, attempt>>
     \/ ~IsGitHub(page) /\ Throws

CheckLogin ==
  /\ pc = "check"
  /\ \/ (IsGitHub(page) \/ IsSso(page)) /\ Goes(LoginDone) /\ Stays /\ UNCHANGED <<stage, attempt>>
     \/ ~IsGitHub(page) /\ ~IsSso(page) /\ Throws

\* submitDeviceCode, and the second login after it.
SubmitDeviceCode ==
  \/ /\ pc = "submit" /\ Shows("device code", TRUE) /\ Goes("select before") /\ Clicks
     /\ stage' = "after" /\ attempt' = 1
  \/ pc = "submit" /\ Shows("device code", FALSE) /\ Throws

LookForCodeInput(seen) ==
  /\ pc = "code form" /\ Shows("device code", seen)
  /\ Goes(IF seen THEN "submit" ELSE "wait code") /\ Stays /\ UNCHANGED <<stage, attempt>>

\* Without a button it is left to the polling to find out.
ConfirmGitHubAuthorization(seen) ==
  /\ pc = "confirm" /\ Shows("authorize", seen)
  /\ Goes("close") /\ UNCHANGED <<stage, attempt>>
  /\ page' \in IF seen THEN Leads(page) ELSE {page}
  /\ authorized' = (authorized \/ (seen /\ page = "authorize"))
  /\ UNCHANGED <<fixed, browser, tracing, told, faulty, polling, result>>

\* captureFailure stops the trace, unless it cannot even make its directory.
CaptureFailure ==
  /\ pc = "caught" /\ Goes("close") /\ result' = "error"
  /\ tracing' \in {FALSE, tracing}
  /\ UNCHANGED <<fixed, stage, attempt, page, browser, told, authorized, faulty, polling>>

Left == FALSE

Close ==
  /\ pc = "close"
  /\ Goes(IF result = "error" THEN "ended" ELSE "poll")
  /\ browser' = Left /\ tracing' = FALSE /\ page' = "none"
  /\ UNCHANGED <<fixed, stage, attempt, told, authorized, faulty, polling, result>>

-----------------------------------------------------------------------------
(* The device code and the token. *)

DeviceCode(i) ==
  /\ pc = "code" /\ Goes("launch")
  /\ asked' = i /\ attempt' = 1
  /\ UNCHANGED <<fixed, stage, page, browser, tracing, told, authorized, faulty, interval, elapsed, result>>

\* An answer that is not ok is tried again, three times in all; no answer is not.
DeviceCodeFails(answered) ==
  /\ pc = "code" /\ faulty' = TRUE
  /\ IF answered /\ attempt < 3 THEN attempt' = attempt + 1 /\ UNCHANGED <<pc, result>>
     ELSE Goes("ended") /\ result' = "error" /\ UNCHANGED attempt
  /\ UNCHANGED <<fixed, stage, page, browser, tracing, told, authorized, polling>>

AtLeastOne(i) == IF i > 1 THEN i ELSE 1

BeginPolling(i) == IF elapsed = 0 /\ interval = 0 THEN AtLeastOne(i) + 3 ELSE interval

\* pollAccessToken: until the time is over it sleeps for the interval and asks.
Sleep ==
  /\ pc = "poll"
  /\ IF elapsed < ExpiresIn
     THEN /\ Goes("asking")
          /\ interval' = BeginPolling(asked) /\ elapsed' = elapsed + interval'
          /\ UNCHANGED result
     ELSE Goes("ended") /\ result' = "error" /\ UNCHANGED <<interval, elapsed>>
  /\ UNCHANGED <<fixed, stage, attempt, page, browser, tracing, told, authorized, faulty, asked>>

Answer(to, ended) ==
  /\ pc = "asking" /\ Goes(to) /\ result' = ended
  /\ UNCHANGED <<fixed, stage, attempt, page, browser, tracing, told, authorized, elapsed>>

Token   == authorized /\ Answer("ended", "token") /\ UNCHANGED <<faulty, asked, interval>>
Pending == ~authorized /\ Answer("poll", "none") /\ UNCHANGED <<faulty, asked, interval>>

\* Any other answer, or none, ends the run.
Refused == Answer("ended", "error") /\ faulty' = TRUE /\ UNCHANGED <<asked, interval>>

\* given: the interval in the answer, 0 if there is none.
Slower(given) == IF given > 0 THEN AtLeastOne(given) + 3 ELSE interval + 5

\* An orderly site slows down only who asks too soon.
SlowDown(given) ==
  /\ site = "orderly" => interval <= asked
  /\ Answer("poll", "none") /\ UNCHANGED faulty
  /\ interval' = Slower(given)
  /\ asked' = IF given > 0 THEN given ELSE asked + 5

Browse ==
  \/ \E b \in BOOLEAN :
       LookForCodeForm(b) \/ CompleteGitHubLogin(b) \/ StaySignedIn(b)
         \/ LookForCodeInput(b) \/ ConfirmGitHubAuthorization(b)
  \/ Launch \/ OpenDevicePage \/ StartSso \/ SsoControlMissing \/ SsoPageReached \/ CompleteSso
  \/ \E coded, reached \in BOOLEAN : AwaitSso(coded, reached)
  \/ SelectAccount("select before", "form") \/ SelectAccount("select after", "check")
  \/ SelectAccount("select code", "code form")
  \/ WaitForGitHub("return", "select after") \/ WaitForGitHub("wait code", "submit")
  \/ WaitForGitHub("authorize", "confirm")
  \/ CheckLogin \/ SubmitDeviceCode \/ CaptureFailure \/ Close

Ask ==
  \/ \E i \in Intervals : DeviceCode(i) \/ SlowDown(i)
  \/ SlowDown(0) \/ Sleep \/ Token \/ Pending \/ Refused
  \/ \E b \in BOOLEAN : DeviceCodeFails(b)

DeviceNext == Browse \/ Ask \/ SiteMoves \/ Fault \/ LaunchFails

DeviceSpec == DeviceInit /\ [][DeviceNext]_deviceVars

\* The run goes on: every wait of it has a timeout.
DeviceFairness == WF_deviceVars(Browse \/ Ask)

-----------------------------------------------------------------------------
(* Properties. *)

\* Wherever the flow fails, no browser and no trace is left behind when it is over, and
\* none is kept open while the token is polled for.
NoBrowserLeft == pc \in {"poll", "asking", "ended"} => ~browser /\ ~tracing

\* GitHub is never asked sooner than it said, whatever it answered before.
PollsNoFaster == pc = "asking" => interval > asked

\* On a site that behaves, whichever pages it shows, the flow authorizes the device: a
\* run that ends without a fault ends with a token.
OrderlySiteAuthorizes == site = "orderly" /\ pc = "ended" /\ ~faulty => result = "token"

\* All of this holds of every run of the flow.
FlowIsSound == NoBrowserLeft /\ PollsNoFaster /\ OrderlySiteAuthorizes

\* The run ends, on every site: its slot in the queue is given back.
Ended     == pc = "ended"
LoginEnds == []<>Ended
=============================================================================
