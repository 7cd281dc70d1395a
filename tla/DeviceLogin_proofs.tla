------------------------- MODULE DeviceLogin_proofs -------------------------
(***************************************************************************)
(* Proofs about the device flow, for every interval GitHub may ask for and *)
(* every time a device code may be valid: no browser is left behind, it is *)
(* never polled faster than was asked, and on a site that behaves a run    *)
(* that meets no fault ends with a token.  After them, those about the     *)
(* lease of the proxy that has the flow begun.                             *)
(***************************************************************************)
EXTENDS DeviceLogin, IdentityLease, TLAPS

-----------------------------------------------------------------------------
(***************************************************************************)
(* Where the browser is on an orderly site, as long as no step failed: the *)
(* code is entered between the two logins, and whoever has come back from  *)
(* the provider is signed in.                                              *)
(***************************************************************************)
\* Where the provider sends whoever is signed in.
Landing == IF entered THEN {"authorize"} ELSE {"select", "device"}

AtGitHub ==
  /\ pc \in {"code", "launch", "open"} => ~signedIn /\ ~entered
  /\ pc \in {"select before", "form", "github login"} =>
       \/ page = "login" /\ ~signedIn
       \/ page = "device" /\ ~signedIn /\ ~entered /\ pc # "github login"
       \/ page = "authorize" /\ signedIn /\ entered
  /\ pc \in {"code", "launch", "open", "select before", "form", "github login", "sso needed"} => attempt = 1
  /\ pc = "sso needed" => page = "authorize" /\ signedIn /\ entered

AtProvider ==
  /\ pc = "sso page" => ~signedIn /\ (page = Provider \/ (page = "interstitial" /\ attempt = 1))
  /\ pc = "sso settled" => ~signedIn /\ page = Provider
  /\ pc = "azure password" => ~signedIn /\ page = "azure password" /\ provider = "azure"
  /\ pc = "azure stay" => signedIn /\ provider = "azure" /\ page \in {"azure stay"} \cup Landing

BackAtGitHub ==
  /\ pc \in {"return", "select after", "check"} => signedIn
  /\ pc \in {"return", "select after"} => page \in Landing
  /\ pc = "check" => page = IF entered THEN "authorize" ELSE "device"
  /\ pc \in {"select code", "code form", "submit"} => ~entered /\ page = "device"
  /\ pc \in {"authorize", "confirm"} => entered /\ page = "authorize"

AllWell ==
  /\ pc \notin {"caught", "wait code"}
  /\ entered <=> stage = "after"
  /\ pc \in {"close", "poll", "asking"} => authorized /\ result = "none"
  /\ pc = "poll" => elapsed = 0
  /\ pc # "ended" => result = "none"
  /\ pc = "ended" => result = "token"

OnTheWay == AtGitHub /\ AtProvider /\ BackAtGitHub /\ AllWell

\* What a run keeps of the browser, and of the polling.
Tidy == pc \in {"code", "launch", "poll", "asking", "ended"} => ~browser /\ ~tracing

Polls ==
  /\ pc \notin {"poll", "asking", "ended"} => elapsed = 0 /\ interval = 0
  /\ pc = "poll" => (elapsed = 0 /\ interval = 0) \/ interval > asked
  /\ pc = "asking" => interval > asked

DeviceInv == DeviceTypeOK /\ Tidy /\ Polls /\ (site = "orderly" /\ ~faulty => OnTheWay)

-----------------------------------------------------------------------------
(* Kinds of steps. *)

\* A step of the flow while the browser is there, or of the site.
Browsing ==
  /\ pc \in BrowserSteps /\ pc' \in BrowserSteps \cup {"caught", "close"}
  /\ stage' \in {"before", "after"} /\ attempt' \in 1..3 /\ page' \in SitePages \cup {"none"}
  /\ {signedIn', entered', authorized', faulty'} \subseteq BOOLEAN /\ faulty' \in {faulty, TRUE}
  /\ UNCHANGED <<site, provider, debug, browser, tracing, asked, interval, elapsed, result>>

LEMMA Tries == 1 \in 1..3 /\ \A n \in 1..3 : n <= 2 => n + 1 \in 1..3
OBVIOUS

LEMMA LeadsToPages == ASSUME NEW p PROVE Leads(p) \subseteq SitePages
BY DEF Leads, Onward, Provider, SitePages, GitHubPages, AzurePages

LEMMA ClicksKeep == ASSUME DeviceTypeOK, Clicks
  PROVE /\ page' \in SitePages /\ signedIn' \in BOOLEAN /\ entered' \in BOOLEAN
        /\ UNCHANGED <<site, provider, debug, browser, tracing, authorized, faulty, asked, interval, elapsed, result>>
BY LeadsToPages DEF Clicks, DeviceTypeOK, fixed, polling

LEMMA BrowserIsLed ==
  ASSUME DeviceTypeOK, Browse \/ SiteMoves \/ Fault
  PROVE Browsing \/ Launch \/ CaptureFailure \/ Close
<1>1. ASSUME NEW b \in BOOLEAN, LookForCodeForm(b) PROVE Browsing
  BY <1>1 DEF LookForCodeForm, Goes, Shows, LoginDone, Stays, fixed, told, polling, DeviceTypeOK, BrowserSteps,
        Browsing
<1>2. ASSUME NEW b \in BOOLEAN, CompleteGitHubLogin(b) PROVE Browsing
  BY <1>2, ClicksKeep DEF CompleteGitHubLogin, Goes, Shows, Throws, Stays, fixed, told, polling, DeviceTypeOK,
        BrowserSteps, Browsing
<1>3. ASSUME NEW b \in BOOLEAN, StaySignedIn(b) PROVE Browsing
  BY <1>3, ClicksKeep DEF StaySignedIn, Goes, Shows, Stays, fixed, told, polling, DeviceTypeOK, BrowserSteps, Browsing
<1>4. ASSUME NEW b \in BOOLEAN, LookForCodeInput(b) PROVE Browsing
  BY <1>4 DEF LookForCodeInput, Goes, Shows, Stays, fixed, told, polling, DeviceTypeOK, BrowserSteps, Browsing
<1>5. ASSUME NEW b \in BOOLEAN, ConfirmGitHubAuthorization(b) PROVE Browsing
  BY <1>5, LeadsToPages DEF ConfirmGitHubAuthorization, Goes, Shows, fixed, told, polling, DeviceTypeOK,
        BrowserSteps, Browsing
<1>6. ASSUME OpenDevicePage PROVE Browsing
  BY <1>6 DEF OpenDevicePage, Goes, fixed, told, polling, DeviceTypeOK, BrowserSteps, Browsing, SitePages, GitHubPages
<1>7. ASSUME StartSso PROVE Browsing
  BY <1>7 DEF StartSso, Goes, SsoNeeded, Stays, fixed, told, polling, DeviceTypeOK, BrowserSteps, Browsing
<1>8. ASSUME SsoControlMissing PROVE Browsing
  BY <1>8 DEF SsoControlMissing, Goes, Shows, Throws, Stays, fixed, told, polling, DeviceTypeOK, BrowserSteps,
        Browsing
<1>9. ASSUME SsoPageReached PROVE Browsing
  BY <1>9 DEF SsoPageReached, Goes, Stays, fixed, told, polling, DeviceTypeOK, BrowserSteps, Browsing
<1>10. ASSUME CompleteSso PROVE Browsing
  BY <1>10, ClicksKeep DEF CompleteSso, Fills, Goes, Shows, Throws, Stays, fixed, told, polling, DeviceTypeOK,
        BrowserSteps, Browsing
<1>11. ASSUME NEW coded \in BOOLEAN, NEW reached \in BOOLEAN, AwaitSso(coded, reached) PROVE Browsing
  <2>1. /\ pc = "sso page" /\ attempt <= 2 /\ UNCHANGED <<stage, authorized, faulty>>
        /\ UNCHANGED <<fixed, browser, tracing, polling, result>>
    BY <1>11 DEF AwaitSso
  <2>2. UNCHANGED <<site, provider, debug, browser, tracing, asked, interval, elapsed, result>>
    BY <2>1 DEF fixed, polling
  <2>3. CASE pc' = "select after" /\ UNCHANGED <<page, told, attempt>>
    BY <2>1, <2>2, <2>3 DEF Browsing, BrowserSteps, DeviceTypeOK, told
  <2>4. ASSUME Continues, Goes(IF reached THEN "sso page" ELSE "select after"),
               attempt' = IF reached THEN NextTry ELSE attempt
        PROVE Browsing
    <3>1. page' \in SitePages \cup {"none"} /\ UNCHANGED told
      BY <2>4, LeadsToPages DEF Continues, told, DeviceTypeOK
    <3>2. attempt' \in 1..3
      <4>1. attempt \in 1..3 /\ attempt <= 2
        BY <2>1 DEF DeviceTypeOK
      <4>2. CASE reached
        <5>1. attempt' = attempt + 1
          BY <4>2, <2>4 DEF NextTry
        <5>. QED BY <4>1, <5>1, Tries
      <4>3. CASE ~reached
        BY <4>1, <4>3, <2>4
      <4>. QED BY <4>2, <4>3
    <3>3. pc' \in BrowserSteps
      BY <2>4 DEF Goes, BrowserSteps
    <3>4. pc \in BrowserSteps /\ {signedIn', entered', authorized', faulty'} \subseteq BOOLEAN /\ stage' \in {"before", "after"}
      BY <2>1, <3>1 DEF BrowserSteps, DeviceTypeOK, told
    <3>. QED BY <2>1, <2>2, <3>1, <3>2, <3>3, <3>4 DEF Browsing
  <2>. QED BY <1>11, <2>3, <2>4 DEF AwaitSso, Goes
<1>12. ASSUME SelectAccount("select before", "form") PROVE Browsing
  BY <1>12, ClicksKeep DEF SelectAccount, Goes, Shows, Throws, Stays, fixed, told, polling, DeviceTypeOK,
        BrowserSteps, Browsing
<1>13. ASSUME SelectAccount("select after", "check") PROVE Browsing
  BY <1>13, ClicksKeep DEF SelectAccount, Goes, Shows, Throws, Stays, fixed, told, polling, DeviceTypeOK,
        BrowserSteps, Browsing
<1>14. ASSUME SelectAccount("select code", "code form") PROVE Browsing
  BY <1>14, ClicksKeep DEF SelectAccount, Goes, Shows, Throws, Stays, fixed, told, polling, DeviceTypeOK,
        BrowserSteps, Browsing
<1>15. ASSUME WaitForGitHub("return", "select after") PROVE Browsing
  BY <1>15 DEF WaitForGitHub, Goes, Throws, Stays, fixed, told, polling, DeviceTypeOK, BrowserSteps, Browsing
<1>16. ASSUME WaitForGitHub("wait code", "submit") PROVE Browsing
  BY <1>16 DEF WaitForGitHub, Goes, Throws, Stays, fixed, told, polling, DeviceTypeOK, BrowserSteps, Browsing
<1>17. ASSUME WaitForGitHub("authorize", "confirm") PROVE Browsing
  BY <1>17 DEF WaitForGitHub, Goes, Throws, Stays, fixed, told, polling, DeviceTypeOK, BrowserSteps, Browsing
<1>18. ASSUME CheckLogin PROVE Browsing
  BY <1>18 DEF CheckLogin, Goes, LoginDone, Throws, Stays, fixed, told, polling, DeviceTypeOK, BrowserSteps, Browsing
<1>19. ASSUME SubmitDeviceCode PROVE Browsing
  <2>1. CASE Clicks /\ pc = "submit" /\ Goes("select before") /\ stage' = "after" /\ attempt' = 1
    <3>1. /\ page' \in SitePages /\ signedIn' \in BOOLEAN /\ entered' \in BOOLEAN
          /\ UNCHANGED <<site, provider, debug, browser, tracing, authorized, faulty, asked, interval, elapsed, result>>
      BY <2>1, ClicksKeep
    <3>2. {signedIn', entered', authorized', faulty'} \subseteq BOOLEAN
      BY <3>1 DEF DeviceTypeOK
    <3>3. pc \in BrowserSteps /\ pc' \in BrowserSteps /\ stage' \in {"before", "after"}
      BY <2>1 DEF Goes, BrowserSteps
    <3>4. attempt' \in 1..3
      BY <2>1, Tries
    <3>. QED BY <3>1, <3>2, <3>3, <3>4 DEF Browsing
  <2>2. CASE Throws /\ pc = "submit"
    BY <2>2 DEF Throws, Goes, Stays, fixed, told, polling, Browsing, BrowserSteps, DeviceTypeOK
  <2>. QED BY <1>19, <2>1, <2>2 DEF SubmitDeviceCode
<1>20. ASSUME SiteMoves PROVE Browsing
  BY <1>20 DEF SiteMoves, fixed, told, polling, DeviceTypeOK, BrowserSteps, Browsing
<1>21. ASSUME Fault PROVE Browsing
  BY <1>21 DEF Fault, Goes, fixed, told, polling, DeviceTypeOK, BrowserSteps, Browsing
<1>. QED
  BY <1>1, <1>2, <1>3, <1>4, <1>5, <1>6, <1>7, <1>8, <1>9, <1>10, <1>11, <1>12, <1>13, <1>14, <1>15, <1>16, <1>17,
    <1>18, <1>19, <1>20, <1>21 DEF Browse

LEMMA TypeStep == ASSUME DeviceTypeOK, DeviceNext PROVE DeviceTypeOK'
<1>1. CASE Browsing
  BY <1>1 DEF Browsing, DeviceTypeOK, BrowserSteps
<1>2. CASE Launch
  BY <1>2 DEF Launch, Goes, fixed, told, polling, DeviceTypeOK, BrowserSteps
<1>3. CASE LaunchFails
  BY <1>3 DEF LaunchFails, Goes, fixed, told, polling, DeviceTypeOK, BrowserSteps
<1>4. CASE CaptureFailure
  BY <1>4 DEF CaptureFailure, Goes, fixed, told, polling, DeviceTypeOK, BrowserSteps
<1>5. CASE Close
  BY <1>5 DEF Close, Goes, Left, fixed, told, polling, DeviceTypeOK, BrowserSteps
<1>6. ASSUME NEW i \in Intervals, DeviceCode(i) PROVE DeviceTypeOK'
  BY <1>6, DeviceAssumption DEF DeviceCode, Goes, fixed, told, DeviceTypeOK, BrowserSteps
<1>7. ASSUME NEW b \in BOOLEAN, DeviceCodeFails(b) PROVE DeviceTypeOK'
  <2>1. UNCHANGED <<fixed, stage, page, browser, tracing, told, authorized, polling>> /\ faulty' = TRUE
    BY <1>7 DEF DeviceCodeFails
  <2>2. \/ attempt < 3 /\ attempt' = attempt + 1 /\ UNCHANGED <<pc, result>>
        \/ pc' = "ended" /\ result' = "error" /\ UNCHANGED attempt
    BY <1>7 DEF DeviceCodeFails, Goes
  <2>. QED BY <2>1, <2>2 DEF fixed, told, polling, DeviceTypeOK
<1>8. CASE Sleep
  <2>1. BeginPolling(asked) \in Nat
    BY DEF BeginPolling, AtLeastOne, DeviceTypeOK
  <2>2. \/ pc' = "asking" /\ interval' = BeginPolling(asked) /\ elapsed' = elapsed + interval' /\ UNCHANGED result
        \/ pc' = "ended" /\ result' = "error" /\ UNCHANGED <<interval, elapsed>>
    BY <1>8 DEF Sleep, Goes
  <2>3. {asked', interval', elapsed'} \subseteq Nat
    BY <1>8, <2>1, <2>2 DEF Sleep, DeviceTypeOK
  <2>. QED BY <1>8, <2>2, <2>3 DEF Sleep, fixed, told, DeviceTypeOK
<1>9. ASSUME NEW i \in Intervals, SlowDown(i) PROVE DeviceTypeOK'
  BY <1>9, DeviceAssumption DEF SlowDown, Answer, Goes, Slower, AtLeastOne, fixed, told, DeviceTypeOK, BrowserSteps
<1>10. CASE SlowDown(0)
  BY <1>10 DEF SlowDown, Answer, Goes, Slower, AtLeastOne, fixed, told, DeviceTypeOK, BrowserSteps
<1>11. CASE Token
  BY <1>11 DEF Token, Answer, Goes, fixed, told, DeviceTypeOK, BrowserSteps
<1>12. CASE Pending
  BY <1>12 DEF Pending, Answer, Goes, fixed, told, DeviceTypeOK, BrowserSteps
<1>13. CASE Refused
  BY <1>13 DEF Refused, Answer, Goes, fixed, told, DeviceTypeOK, BrowserSteps
<1>. QED
  BY <1>1, <1>2, <1>3, <1>4, <1>5, <1>6, <1>7, <1>8, <1>9, <1>10, <1>11, <1>12, <1>13, BrowserIsLed
    DEF DeviceNext, Ask

LEMMA TidyStep == ASSUME DeviceTypeOK, Tidy, DeviceNext PROVE Tidy'
<1>1. CASE Browsing
  BY <1>1 DEF Browsing, DeviceTypeOK, BrowserSteps, Tidy
<1>2. CASE Launch
  BY <1>2 DEF Launch, Goes, fixed, told, polling, DeviceTypeOK, BrowserSteps, Tidy
<1>3. CASE LaunchFails
  BY <1>3 DEF LaunchFails, Goes, fixed, told, polling, DeviceTypeOK, BrowserSteps, Tidy
<1>4. CASE CaptureFailure
  BY <1>4 DEF CaptureFailure, Goes, fixed, told, polling, DeviceTypeOK, BrowserSteps, Tidy
<1>5. CASE Close
  BY <1>5 DEF Close, Goes, Left, fixed, told, polling, DeviceTypeOK, BrowserSteps, Tidy
<1>6. ASSUME NEW i \in Intervals, DeviceCode(i) PROVE Tidy'
  BY <1>6 DEF DeviceCode, Goes, fixed, told, DeviceTypeOK, BrowserSteps, Tidy
<1>7. ASSUME NEW b \in BOOLEAN, DeviceCodeFails(b) PROVE Tidy'
  BY <1>7 DEF DeviceCodeFails, Goes, fixed, told, polling, DeviceTypeOK, BrowserSteps, Tidy
<1>8. CASE Sleep
  BY <1>8 DEF Sleep, Goes, BeginPolling, AtLeastOne, fixed, told, DeviceTypeOK, BrowserSteps, Tidy
<1>9. ASSUME NEW i \in Intervals, SlowDown(i) PROVE Tidy'
  BY <1>9 DEF SlowDown, Answer, Goes, Slower, AtLeastOne, fixed, told, DeviceTypeOK, BrowserSteps, Tidy
<1>10. CASE SlowDown(0)
  BY <1>10 DEF SlowDown, Answer, Goes, Slower, AtLeastOne, fixed, told, DeviceTypeOK, BrowserSteps, Tidy
<1>11. CASE Token
  BY <1>11 DEF Token, Answer, Goes, fixed, told, DeviceTypeOK, BrowserSteps, Tidy
<1>12. CASE Pending
  BY <1>12 DEF Pending, Answer, Goes, fixed, told, DeviceTypeOK, BrowserSteps, Tidy
<1>13. CASE Refused
  BY <1>13 DEF Refused, Answer, Goes, fixed, told, DeviceTypeOK, BrowserSteps, Tidy
<1>. QED
  BY <1>1, <1>2, <1>3, <1>4, <1>5, <1>6, <1>7, <1>8, <1>9, <1>10, <1>11, <1>12, <1>13, BrowserIsLed
    DEF DeviceNext, Ask

LEMMA PollsStep == ASSUME DeviceTypeOK, Polls, DeviceNext PROVE Polls'
<1>1. CASE Browsing
  BY <1>1 DEF Browsing, DeviceTypeOK, BrowserSteps, Polls
<1>2. CASE Launch
  BY <1>2 DEF Launch, Goes, fixed, told, polling, DeviceTypeOK, BrowserSteps, Polls
<1>3. CASE LaunchFails
  BY <1>3 DEF LaunchFails, Goes, fixed, told, polling, DeviceTypeOK, BrowserSteps, Polls
<1>4. CASE CaptureFailure
  BY <1>4 DEF CaptureFailure, Goes, fixed, told, polling, DeviceTypeOK, BrowserSteps, Polls
<1>5. CASE Close
  BY <1>5 DEF Close, Goes, Left, fixed, told, polling, DeviceTypeOK, BrowserSteps, Polls
<1>6. ASSUME NEW i \in Intervals, DeviceCode(i) PROVE Polls'
  BY <1>6, DeviceAssumption DEF DeviceCode, Goes, fixed, told, DeviceTypeOK, BrowserSteps, Polls
<1>7. ASSUME NEW b \in BOOLEAN, DeviceCodeFails(b) PROVE Polls'
  BY <1>7 DEF DeviceCodeFails, Goes, fixed, told, polling, DeviceTypeOK, BrowserSteps, Polls
<1>8. CASE Sleep
  BY <1>8, DeviceAssumption DEF Sleep, Goes, BeginPolling, AtLeastOne, fixed, told, DeviceTypeOK, BrowserSteps, Polls
<1>9. ASSUME NEW i \in Intervals, SlowDown(i) PROVE Polls'
  BY <1>9, DeviceAssumption DEF SlowDown, Answer, Goes, Slower, AtLeastOne, fixed, told, DeviceTypeOK,
        BrowserSteps, Polls
<1>10. CASE SlowDown(0)
  BY <1>10 DEF SlowDown, Answer, Goes, Slower, AtLeastOne, fixed, told, DeviceTypeOK, BrowserSteps, Polls
<1>11. CASE Token
  BY <1>11 DEF Token, Answer, Goes, fixed, told, DeviceTypeOK, BrowserSteps, Polls
<1>12. CASE Pending
  BY <1>12 DEF Pending, Answer, Goes, fixed, told, DeviceTypeOK, BrowserSteps, Polls
<1>13. CASE Refused
  BY <1>13 DEF Refused, Answer, Goes, fixed, told, DeviceTypeOK, BrowserSteps, Polls
<1>. QED
  BY <1>1, <1>2, <1>3, <1>4, <1>5, <1>6, <1>7, <1>8, <1>9, <1>10, <1>11, <1>12, <1>13, BrowserIsLed
    DEF DeviceNext, Ask


-----------------------------------------------------------------------------
(* On an orderly site. *)

LEMMA ControlsOf == ASSUME NEW p \in SitePages
  PROVE /\ "github login" \in Controls[p] <=> p = "login"
        /\ "account" \in Controls[p] <=> p = "select"
        /\ "device code" \in Controls[p] <=> p = "device"
        /\ "github sso" \in Controls[p] <=> p = "interstitial"
        /\ "authorize" \in Controls[p] <=> p = "authorize"
        /\ "sso form" \in Controls[p] <=> p = "sso"
        /\ \A a \in AzurePages : a \in Controls[p] <=> p = a
BY DEF Controls, SitePages, GitHubPages, AzurePages

LEMMA OrderlyLeads == ASSUME site = "orderly"
  PROVE /\ Leads("login") = {"interstitial", Provider} /\ Leads("interstitial") = {Provider}
        /\ Leads("azure user") = {"azure password"} /\ Leads("azure password") = {"azure stay"} \cup Landing
        /\ Leads("sso") = Landing /\ Leads("azure stay") = Landing /\ Leads("select") = {"device"}
        /\ Leads("device") = IF signedIn THEN {"authorize"} ELSE {"login"}
BY DEF Leads, Onward, Landing

LEMMA OnAPage ==
  ASSUME OnTheWay, DeviceTypeOK, pc \in BrowserSteps, pc # "open", pc # "confirm" PROVE page \in SitePages
BY DEF OnTheWay, AtGitHub, AtProvider, BackAtGitHub, AllWell, Landing, Provider, DeviceTypeOK, BrowserSteps,
       SitePages, GitHubPages, AzurePages

LEMMA OrderlyClicks == ASSUME DeviceTypeOK, Clicks, site = "orderly"
  PROVE /\ page' \in Leads(page) /\ UNCHANGED <<provider, result>>
        /\ page \in {"sso", "azure password"} => signedIn'
        /\ page \notin {"sso", "azure password"} => signedIn' = signedIn
        /\ page = "device" => entered'
        /\ page # "device" => entered' = entered
BY DEF Clicks, DeviceTypeOK, fixed

LEMMA WayStep ==
  ASSUME DeviceTypeOK, Polls, OnTheWay, site = "orderly", DeviceNext, ~faulty'
  PROVE OnTheWay'
<1>1. ASSUME NEW b \in BOOLEAN, LookForCodeForm(b) PROVE OnTheWay'
  <2>1. /\ pc = "form" /\ result = "none" /\ (entered <=> stage = "after") /\ attempt = 1
        /\ \/ page = "login" /\ ~signedIn
           \/ page = "device" /\ ~signedIn /\ ~entered
           \/ page = "authorize" /\ signedIn /\ entered
    BY <1>1 DEF LookForCodeForm, BrowserSteps, AllWell, AtGitHub, AtProvider, BackAtGitHub, OnTheWay, Landing,
          Provider
  <2>2. b = (page = "device")
    BY <1>1, <2>1, ControlsOf, OnAPage DEF LookForCodeForm, Shows, BrowserSteps
  <2>3. UNCHANGED <<provider, page, signedIn, entered, authorized, stage, attempt, elapsed, result>>
    BY <1>1 DEF LookForCodeForm, Stays, fixed, told, polling
  <2>4. CASE page = "device"
    <3>1. b /\ stage = "before"
      BY <2>1, <2>2, <2>4 DEF DeviceTypeOK
    <3>2. pc' = "select code"
      BY <1>1, <3>1 DEF LookForCodeForm, LoginDone, Goes
    <3>. QED BY <2>1, <2>3, <2>4, <3>1, <3>2 DEF OnTheWay, AtGitHub, AtProvider, BackAtGitHub, AllWell, Landing,
          Provider, BrowserSteps
  <2>5. CASE page # "device"
    <3>1. pc' = "github login"
      BY <1>1, <2>2, <2>5 DEF LookForCodeForm, Goes
    <3>. QED BY <2>1, <2>3, <2>5, <3>1 DEF OnTheWay, AtGitHub, AtProvider, BackAtGitHub, AllWell, Landing,
          Provider, BrowserSteps
  <2>. QED BY <2>4, <2>5
<1>2. ASSUME NEW b \in BOOLEAN, CompleteGitHubLogin(b) PROVE OnTheWay'
  BY <1>2, ControlsOf, OrderlyLeads, OnAPage DEF CompleteGitHubLogin, Clicks, Throws, Stays, IsSso, IsKnown,
        IsGitHub, AzurePages, GitHubPages, OnTheWay, AtGitHub, AtProvider, BackAtGitHub, AllWell, Landing,
        Provider, fixed, told, polling, Goes, Shows, BrowserSteps
<1>3. ASSUME NEW b \in BOOLEAN, StaySignedIn(b) PROVE OnTheWay'
  <2>1. /\ pc = "azure stay" /\ result = "none" /\ (entered <=> stage = "after")
        /\ signedIn /\ page \in {"azure stay"} \cup Landing
    BY <1>3 DEF StaySignedIn, BrowserSteps, AllWell, AtGitHub, AtProvider, BackAtGitHub, OnTheWay, Landing, Provider
  <2>2. b = (page = "azure stay")
    BY <1>3, <2>1, ControlsOf, OnAPage DEF StaySignedIn, Shows, BrowserSteps, AzurePages
  <2>3. pc' = "return" /\ UNCHANGED <<provider, stage, result>>
    BY <1>3, ClicksKeep DEF StaySignedIn, Goes, Stays, fixed
  <2>4. page' \in Landing /\ signedIn' /\ entered' = entered
    <3>1. CASE b
      BY <1>3, <2>1, <2>2, <3>1, OrderlyLeads, OrderlyClicks DEF StaySignedIn
    <3>2. CASE ~b
      BY <1>3, <2>1, <2>2, <3>2 DEF StaySignedIn, Stays, told
    <3>. QED BY <3>1, <3>2
  <2>. QED BY <2>1, <2>3, <2>4 DEF OnTheWay, AtGitHub, AtProvider, BackAtGitHub, AllWell, Landing, Provider,
        BrowserSteps
<1>4. ASSUME NEW b \in BOOLEAN, LookForCodeInput(b) PROVE OnTheWay'
  BY <1>4, ControlsOf, OnAPage DEF LookForCodeInput, Stays, OnTheWay, AtGitHub, AtProvider, BackAtGitHub, AllWell,
        Landing, Provider, fixed, told, polling, Goes, Shows, BrowserSteps
<1>5. ASSUME NEW b \in BOOLEAN, ConfirmGitHubAuthorization(b) PROVE OnTheWay'
  <2>1. pc = "confirm" /\ result = "none" /\ entered /\ stage = "after" /\ page = "authorize" /\ b
    BY <1>5, ControlsOf, OnAPage DEF ConfirmGitHubAuthorization, SitePages, GitHubPages, Shows, BrowserSteps,
          AllWell, AtGitHub, AtProvider, BackAtGitHub, OnTheWay, Landing, Provider
  <2>2. pc' = "close" /\ authorized' /\ UNCHANGED <<entered, stage, result>>
    BY <1>5, <2>1 DEF ConfirmGitHubAuthorization, Goes, Shows, Stays, Clicks, fixed, told, polling, BrowserSteps
  <2>. QED BY <2>1, <2>2 DEF OnTheWay, AtGitHub, AtProvider, BackAtGitHub, AllWell, Landing, Provider, BrowserSteps
<1>6. ASSUME Launch PROVE OnTheWay'
  BY <1>6 DEF Launch, OnTheWay, AtGitHub, AtProvider, BackAtGitHub, AllWell, Landing, Provider, fixed, told,
        polling, Goes
<1>7. ASSUME OpenDevicePage PROVE OnTheWay'
  BY <1>7 DEF OpenDevicePage, OnTheWay, AtGitHub, AtProvider, BackAtGitHub, AllWell, Landing, Provider, fixed,
        told, polling, Goes
<1>8. ASSUME StartSso PROVE OnTheWay'
  <2>1. pc = "sso needed" /\ result = "none" /\ (entered <=> stage = "after") /\ page = "authorize" /\ signedIn /\ attempt = 1 /\ entered
    BY <1>8, ControlsOf, OnAPage DEF StartSso, Shows, BrowserSteps, AllWell, AtGitHub, AtProvider, BackAtGitHub,
          OnTheWay, Landing, Provider
  <2>2. pc' = "check" /\ UNCHANGED <<provider, page, signedIn, entered, authorized, stage, attempt, elapsed, result>>
    BY <1>8, <2>1 DEF StartSso, SsoNeeded, IsSso, IsKnown, AzurePages, Goes, Shows, Stays, Clicks, fixed, told,
          polling, BrowserSteps
  <2>. QED BY <2>1, <2>2 DEF OnTheWay, AtGitHub, AtProvider, BackAtGitHub, AllWell, Landing, Provider, BrowserSteps
<1>9. ASSUME SsoControlMissing PROVE OnTheWay'
  BY <1>9, ControlsOf, OnAPage DEF SsoControlMissing, Throws, Stays, OnTheWay, AtGitHub, AtProvider, BackAtGitHub,
        AllWell, Landing, Provider, fixed, told, polling, Goes, Shows, BrowserSteps
<1>10. ASSUME SsoPageReached PROVE OnTheWay'
  <2>1. /\ pc = "sso page" /\ result = "none" /\ (entered <=> stage = "after") /\ ~signedIn
        /\ page = Provider \/ (page = "interstitial" /\ attempt = 1)
    BY <1>10 DEF SsoPageReached, BrowserSteps, OnTheWay, AllWell, AtProvider
  <2>2. page = Provider
    <3>1. ~IsSso("interstitial") /\ ~IsKnown("interstitial")
      BY DEF IsSso, IsKnown, AzurePages
    <3>2. attempt = 3 \/ IsSso(page) \/ IsKnown(page)
      BY <1>10 DEF SsoPageReached
    <3>3. CASE page = "interstitial" /\ attempt = 1
      BY <3>1, <3>2, <3>3
    <3>. QED BY <2>1, <3>3
  <2>3. IsSso(page) \/ IsKnown(page)
    BY <2>2 DEF IsSso, IsKnown, AzurePages, Provider, DeviceTypeOK
  <2>4. pc' = "sso settled"
    BY <1>10, <2>3 DEF SsoPageReached, Goes
  <2>5. UNCHANGED <<provider, page, signedIn, entered, authorized, stage, attempt, elapsed, result>>
    BY <1>10 DEF SsoPageReached, Stays, fixed, told, polling
  <2>. QED BY <2>1, <2>2, <2>4, <2>5 DEF OnTheWay, AtGitHub, AtProvider, BackAtGitHub, AllWell, Provider, BrowserSteps
<1>11. ASSUME CompleteSso PROVE OnTheWay'
  <2>1. CASE Fills("sso settled", "sso form", "return") /\ provider = "custom"
    <3>1. /\ pc = "sso settled" /\ result = "none" /\ (entered <=> stage = "after")
          /\ ~signedIn /\ page = "sso"
      BY <2>1 DEF Fills, BrowserSteps, OnTheWay, AllWell, AtProvider, Provider
    <3>2. Goes("return") /\ Clicks /\ UNCHANGED <<stage, attempt>>
      BY <2>1, <3>1, ControlsOf DEF Fills, Shows, SitePages
    <3>3. page' \in Landing /\ signedIn' /\ entered' = entered /\ UNCHANGED <<provider, result>>
      BY <3>1, <3>2, OrderlyLeads, OrderlyClicks
    <3>. QED BY <3>1, <3>2, <3>3 DEF Goes, OnTheWay, AtGitHub, AtProvider, BackAtGitHub, AllWell, Landing,
          Provider, BrowserSteps
  <2>2. CASE Fills("sso settled", "azure user", "azure password") /\ provider = "azure"
    <3>1. /\ pc = "sso settled" /\ result = "none" /\ (entered <=> stage = "after")
          /\ ~signedIn /\ page = "azure user"
      BY <2>2 DEF Fills, BrowserSteps, OnTheWay, AllWell, AtProvider, Provider
    <3>2. Goes("azure password") /\ Clicks /\ UNCHANGED <<stage, attempt>>
      BY <2>2, <3>1, ControlsOf DEF Fills, Shows, SitePages, AzurePages
    <3>3. page' = "azure password" /\ ~signedIn' /\ entered' = entered /\ UNCHANGED <<provider, result>>
      BY <3>1, <3>2, OrderlyLeads, OrderlyClicks
    <3>. QED BY <2>2, <3>1, <3>2, <3>3 DEF Goes, OnTheWay, AtGitHub, AtProvider, BackAtGitHub, AllWell, BrowserSteps
  <2>3. CASE Fills("azure password", "azure password", "azure stay")
    <3>1. /\ pc = "azure password" /\ result = "none" /\ (entered <=> stage = "after")
          /\ ~signedIn /\ page = "azure password" /\ provider = "azure"
      BY <2>3 DEF Fills, BrowserSteps, OnTheWay, AllWell, AtProvider
    <3>2. Goes("azure stay") /\ Clicks /\ UNCHANGED <<stage, attempt>>
      BY <2>3, <3>1, ControlsOf DEF Fills, Shows, SitePages, AzurePages
    <3>3. page' \in {"azure stay"} \cup Landing /\ signedIn' /\ entered' = entered /\ UNCHANGED <<provider, result>>
      BY <3>1, <3>2, OrderlyLeads, OrderlyClicks
    <3>4. Landing' = Landing
      BY <3>3 DEF Landing
    <3>. QED BY <3>1, <3>2, <3>3, <3>4 DEF Goes, OnTheWay, AtGitHub, AtProvider, BackAtGitHub, AllWell, BrowserSteps
  <2>. QED BY <1>11, <2>1, <2>2, <2>3 DEF CompleteSso
<1>12. ASSUME NEW coded \in BOOLEAN, NEW reached \in BOOLEAN, AwaitSso(coded, reached) PROVE OnTheWay'
  <2>1. /\ pc = "sso page" /\ result = "none" /\ (entered <=> stage = "after") /\ ~signedIn
        /\ page = Provider \/ (page = "interstitial" /\ attempt = 1)
    BY <1>12 DEF AwaitSso, BrowserSteps, OnTheWay, AllWell, AtProvider
  <2>2. page = "interstitial" /\ attempt = 1
    <3>1. IsSso(Provider) \/ IsKnown(Provider)
      BY DEF IsSso, IsKnown, AzurePages, Provider, DeviceTypeOK
    <3>. QED BY <1>12, <2>1, <3>1 DEF AwaitSso
  <2>3. ~coded
    BY <1>12, <2>2, ControlsOf DEF AwaitSso, Shows, SitePages, GitHubPages
  <2>4. page' = Provider /\ UNCHANGED <<provider, stage, signedIn, entered, authorized, elapsed, result>>
    BY <1>12, <2>2, <2>3, OrderlyLeads DEF AwaitSso, Continues, fixed, told, polling
  <2>5. reached
    <3>1. SsoNeeded'
      BY <2>4 DEF SsoNeeded, IsSso, IsKnown, AzurePages, Provider, DeviceTypeOK
    <3>. QED BY <1>12, <2>3, <3>1 DEF AwaitSso
  <2>6. pc' = "sso page"
    BY <1>12, <2>3, <2>5 DEF AwaitSso, Goes
  <2>. QED BY <2>1, <2>4, <2>6 DEF OnTheWay, AtGitHub, AtProvider, BackAtGitHub, AllWell, Provider, BrowserSteps
<1>13. ASSUME SelectAccount("select before", "form") PROVE OnTheWay'
  <2>1. /\ pc = "select before" /\ page # "select" /\ attempt = 1 /\ result = "none" /\ (entered <=> stage = "after")
        /\ \/ page = "login" /\ ~signedIn
           \/ page = "device" /\ ~signedIn /\ ~entered
           \/ page = "authorize" /\ signedIn /\ entered
    BY <1>13 DEF SelectAccount, BrowserSteps, OnTheWay, AllWell, AtGitHub
  <2>2. pc' = "form" /\ UNCHANGED <<provider, page, signedIn, entered, authorized, stage, attempt, elapsed, result>>
    BY <1>13, <2>1 DEF SelectAccount, Goes, Stays, fixed, told, polling
  <2>. QED BY <2>1, <2>2 DEF OnTheWay, AtGitHub, AtProvider, BackAtGitHub, AllWell, BrowserSteps
<1>14. ASSUME SelectAccount("select after", "check") PROVE OnTheWay'
  <2>1. pc = "select after" /\ result = "none" /\ (entered <=> stage = "after") /\ signedIn /\ page \in Landing
    BY <1>14 DEF SelectAccount, BrowserSteps, OnTheWay, AllWell, BackAtGitHub
  <2>2. pc' = "check" /\ UNCHANGED <<provider, stage, result>> /\ signedIn' /\ entered' = entered /\ page' = IF entered THEN "authorize" ELSE "device"
    <3>1. CASE page # "select"
      BY <1>14, <2>1, <3>1 DEF SelectAccount, Goes, Stays, fixed, told, Landing
    <3>2. CASE page = "select"
      <4>1. Goes("check") /\ Clicks /\ UNCHANGED stage
        BY <1>14, <3>2, ControlsOf DEF SelectAccount, Shows, SitePages, GitHubPages
      <4>. QED BY <2>1, <3>2, <4>1, OrderlyLeads, OrderlyClicks DEF Goes, Landing
    <3>. QED BY <3>1, <3>2
  <2>. QED BY <2>1, <2>2 DEF OnTheWay, AtGitHub, AtProvider, BackAtGitHub, AllWell, BrowserSteps
<1>15. ASSUME SelectAccount("select code", "code form") PROVE OnTheWay'
  <2>1. pc = "select code" /\ result = "none" /\ (entered <=> stage = "after") /\ ~entered /\ page = "device"
    BY <1>15 DEF SelectAccount, BrowserSteps, OnTheWay, AllWell, BackAtGitHub
  <2>2. pc' = "code form" /\ UNCHANGED <<provider, stage, result>> /\ ~entered' /\ page' = "device"
    <3>1. CASE page # "select"
      <4>1. Goes("code form") /\ Stays /\ UNCHANGED stage
        BY <1>15, <3>1 DEF SelectAccount
      <4>. QED BY <2>1, <4>1 DEF Goes, Stays, fixed, told
    <3>2. CASE page = "select"
      <4>1. Goes("code form") /\ Clicks /\ UNCHANGED stage
        BY <1>15, <3>2, ControlsOf DEF SelectAccount, Shows, SitePages, GitHubPages
      <4>. QED BY <2>1, <3>2, <4>1, OrderlyLeads, OrderlyClicks DEF Goes, Landing
    <3>. QED BY <3>1, <3>2
  <2>. QED BY <2>1, <2>2 DEF OnTheWay, AtGitHub, AtProvider, BackAtGitHub, AllWell, BrowserSteps
<1>16. ASSUME WaitForGitHub("return", "select after") PROVE OnTheWay'
  <2>1. /\ pc = "return" /\ result = "none" /\ (entered <=> stage = "after") /\ signedIn /\ page \in Landing
    BY <1>16 DEF WaitForGitHub, BrowserSteps, OnTheWay, AllWell, BackAtGitHub
  <2>2. IsGitHub(page)
    BY <2>1 DEF IsGitHub, Landing, GitHubPages
  <2>3. pc' = "select after" /\ UNCHANGED <<provider, page, signedIn, entered, authorized, stage, attempt, elapsed, result>>
    BY <1>16, <2>2 DEF WaitForGitHub, Goes, Stays, fixed, told, polling
  <2>4. Landing' = Landing
    BY <2>3 DEF Landing
  <2>. QED BY <2>1, <2>3, <2>4 DEF OnTheWay, AtGitHub, AtProvider, BackAtGitHub, AllWell, BrowserSteps
<1>17. ASSUME WaitForGitHub("wait code", "submit") PROVE OnTheWay'
  BY <1>17 DEF WaitForGitHub, Throws, Stays, IsGitHub, GitHubPages, OnTheWay, AtGitHub, AtProvider, BackAtGitHub,
        AllWell, Landing, Provider, fixed, told, polling, Goes
<1>18. ASSUME WaitForGitHub("authorize", "confirm") PROVE OnTheWay'
  BY <1>18 DEF WaitForGitHub, Throws, Stays, IsGitHub, GitHubPages, OnTheWay, AtGitHub, AtProvider, BackAtGitHub,
        AllWell, Landing, Provider, fixed, told, polling, Goes
<1>19. ASSUME CheckLogin PROVE OnTheWay'
  <2>1. /\ pc = "check" /\ result = "none" /\ (entered <=> stage = "after") /\ signedIn
        /\ page = IF entered THEN "authorize" ELSE "device"
    BY <1>19 DEF CheckLogin, BrowserSteps, OnTheWay, AllWell, BackAtGitHub
  <2>2. IsGitHub(page)
    BY <2>1 DEF IsGitHub, GitHubPages
  <2>3. Goes(LoginDone) /\ Stays /\ UNCHANGED <<stage, attempt>>
    BY <1>19, <2>2 DEF CheckLogin
  <2>4. UNCHANGED <<provider, page, signedIn, entered, authorized, stage, attempt, elapsed, result>>
    BY <2>3 DEF Stays, fixed, told, polling
  <2>5. pc' = IF entered THEN "authorize" ELSE "select code"
    BY <2>1, <2>3 DEF Goes, LoginDone, DeviceTypeOK
  <2>. QED BY <2>1, <2>4, <2>5 DEF OnTheWay, AtGitHub, AtProvider, BackAtGitHub, AllWell, BrowserSteps
<1>20. ASSUME SubmitDeviceCode PROVE OnTheWay'
  <2>1. pc = "submit" /\ result = "none" /\ ~entered /\ page = "device"
    BY <1>20 DEF SubmitDeviceCode, BrowserSteps, OnTheWay, AllWell, BackAtGitHub
  <2>2. pc' = "select before" /\ Clicks /\ stage' = "after" /\ attempt' = 1
    BY <1>20, <2>1, ControlsOf DEF SubmitDeviceCode, Shows, Goes, SitePages, GitHubPages
  <2>3. UNCHANGED <<provider, result, signedIn>> /\ entered'
    BY <2>1, <2>2, OrderlyClicks
  <2>4. page' = IF signedIn THEN "authorize" ELSE "login"
    BY <2>1, <2>2, OrderlyLeads, OrderlyClicks
  <2>. QED BY <2>1, <2>2, <2>3, <2>4 DEF OnTheWay, AtGitHub, AtProvider, BackAtGitHub, AllWell, BrowserSteps
<1>21. ASSUME CaptureFailure PROVE OnTheWay'
  BY <1>21 DEF CaptureFailure, OnTheWay, AtGitHub, AtProvider, BackAtGitHub, AllWell, Landing, Provider, fixed,
        told, polling, Goes
<1>22. ASSUME Close PROVE OnTheWay'
  <2>1. pc = "close" /\ result = "none" /\ (entered <=> stage = "after") /\ authorized
    BY <1>22 DEF Close, OnTheWay, AllWell
  <2>2. elapsed = 0
    BY <2>1 DEF Polls
  <2>3. pc' = "poll" /\ UNCHANGED <<stage, entered, authorized, elapsed, result>>
    BY <1>22, <2>1 DEF Close, Goes, told, polling
  <2>. QED BY <2>1, <2>2, <2>3 DEF OnTheWay, AtGitHub, AtProvider, BackAtGitHub, AllWell, BrowserSteps
<1>23. ASSUME NEW i \in Intervals, DeviceCode(i) PROVE OnTheWay'
  BY <1>23, DeviceAssumption DEF DeviceCode, OnTheWay, AtGitHub, AtProvider, BackAtGitHub, AllWell, Landing,
        Provider, fixed, told, Goes
<1>24. ASSUME NEW i \in Intervals, SlowDown(i) PROVE OnTheWay'
  <2>1. pc = "asking"
    BY <1>24 DEF SlowDown, Answer
  <2>2. interval > asked
    BY <2>1 DEF Polls
  <2>3. interval <= asked
    BY <1>24 DEF SlowDown
  <2>. QED BY <2>2, <2>3 DEF DeviceTypeOK
<1>25. ASSUME SlowDown(0) PROVE OnTheWay'
  <2>1. pc = "asking"
    BY <1>25 DEF SlowDown, Answer
  <2>2. interval > asked
    BY <2>1 DEF Polls
  <2>3. interval <= asked
    BY <1>25 DEF SlowDown
  <2>. QED BY <2>2, <2>3 DEF DeviceTypeOK
<1>26. ASSUME Sleep PROVE OnTheWay'
  <2>1. pc = "poll" /\ authorized /\ result = "none" /\ elapsed = 0 /\ (entered <=> stage = "after")
    BY <1>26 DEF Sleep, OnTheWay, AllWell
  <2>2. elapsed < ExpiresIn
    BY <2>1, DeviceAssumption
  <2>3. pc' = "asking" /\ UNCHANGED <<stage, entered, authorized, result>>
    BY <1>26, <2>2 DEF Sleep, Goes, told
  <2>. QED BY <2>1, <2>3 DEF OnTheWay, AtGitHub, AtProvider, BackAtGitHub, AllWell, BrowserSteps
<1>27. ASSUME Token PROVE OnTheWay'
  BY <1>27 DEF Token, Answer, OnTheWay, AtGitHub, AtProvider, BackAtGitHub, AllWell, Landing, Provider, fixed,
        told, Goes
<1>28. ASSUME Pending PROVE OnTheWay'
  BY <1>28 DEF Pending, Answer, OnTheWay, AtGitHub, AtProvider, BackAtGitHub, AllWell, Landing, Provider, fixed,
        told, Goes
<1>29. ASSUME Refused PROVE OnTheWay'
  BY <1>29 DEF Refused, Answer, OnTheWay, AtGitHub, AtProvider, BackAtGitHub, AllWell, Landing, Provider, fixed,
        told, Goes
<1>30. ASSUME NEW b \in BOOLEAN, DeviceCodeFails(b) PROVE OnTheWay'
  BY <1>30 DEF DeviceCodeFails, OnTheWay, AtGitHub, AtProvider, BackAtGitHub, AllWell, Landing, Provider, fixed,
        told, polling, Goes
<1>31. ASSUME SiteMoves PROVE OnTheWay'
  BY <1>31 DEF SiteMoves, OnTheWay, AtGitHub, AtProvider, BackAtGitHub, AllWell, Landing, Provider, fixed, told,
        polling, BrowserSteps
<1>32. ASSUME Fault PROVE OnTheWay'
  BY <1>32 DEF Fault, OnTheWay, AtGitHub, AtProvider, BackAtGitHub, AllWell, Landing, Provider, fixed, told,
        polling, Goes, BrowserSteps
<1>33. ASSUME LaunchFails PROVE OnTheWay'
  BY <1>33 DEF LaunchFails, OnTheWay, AtGitHub, AtProvider, BackAtGitHub, AllWell, Landing, Provider, fixed, told,
        polling, Goes
<1>. QED
  BY <1>1, <1>2, <1>3, <1>4, <1>5, <1>6, <1>7, <1>8, <1>9, <1>10, <1>11, <1>12, <1>13, <1>14, <1>15, <1>16, <1>17,
    <1>18, <1>19, <1>20, <1>21, <1>22, <1>23, <1>24, <1>25, <1>26, <1>27, <1>28, <1>29, <1>30, <1>31, <1>32,
    <1>33 DEF DeviceNext, Browse, Ask

\* A run that met a fault has met it for good, and its site stays what it is.
LEMMA HistoryStep == ASSUME DeviceTypeOK, DeviceNext PROVE site' = site /\ faulty' \in {faulty, TRUE}
<1>1. CASE Browse \/ SiteMoves \/ Fault
  <2>1. CASE Browsing
    BY <2>1 DEF Browsing
  <2>2. CASE Launch \/ CaptureFailure \/ Close
    BY <2>2 DEF Launch, CaptureFailure, Close, fixed
  <2>. QED BY <1>1, <2>1, <2>2, BrowserIsLed
<1>2. CASE LaunchFails
  BY <1>2 DEF LaunchFails, fixed
<1>3. CASE Ask
  BY <1>3 DEF Ask, DeviceCode, SlowDown, Sleep, Token, Pending, Refused, Answer, DeviceCodeFails, fixed
<1>. QED BY <1>1, <1>2, <1>3 DEF DeviceNext

-----------------------------------------------------------------------------
(* The theorems. *)

\* Every state of a run is one the invariant describes: the browser is tidied up, the polling
\* keeps to what was asked, and an orderly run is where the flow (src/login/src/auth/deviceFlow.ts)
\* expects it.
THEOREM FlowInvariance == DeviceSpec => []DeviceInv
<1>1. DeviceInit => DeviceInv
  <2>. SUFFICES ASSUME DeviceInit PROVE DeviceInv
    OBVIOUS
  <2>1. DeviceTypeOK
    <3>1. attempt \in 1..3
      BY Tries DEF DeviceInit
    <3>2. {browser, tracing, signedIn, entered, authorized, faulty} = {FALSE}
      BY Zenon DEF DeviceInit
    <3>3. {asked, interval, elapsed} \subseteq Nat
      BY DEF DeviceInit
    <3>4. {FALSE} \subseteq BOOLEAN
      OBVIOUS
    <3>5. {browser, tracing, signedIn, entered, authorized, faulty} \subseteq BOOLEAN
      BY <3>2, <3>4, Zenon
    <3>6. /\ site \in Sites /\ provider \in {"custom", "azure"} /\ debug \in BOOLEAN
          /\ pc = "code" /\ stage = "before" /\ page = "none" /\ result = "none"
      BY DEF DeviceInit
    <3>. QED BY <3>1, <3>3, <3>5, <3>6 DEF DeviceTypeOK
  <2>2. Tidy /\ Polls
    BY DEF DeviceInit, Tidy, Polls
  <2>3. OnTheWay
    BY DEF DeviceInit, OnTheWay, AtGitHub, AtProvider, BackAtGitHub, AllWell, BrowserSteps
  <2>. QED BY <2>1, <2>2, <2>3 DEF DeviceInv
<1>2. ASSUME DeviceInv, [DeviceNext]_deviceVars PROVE DeviceInv'
  <2>1. CASE DeviceNext
    <3>1. DeviceTypeOK' /\ Tidy' /\ Polls'
      BY <1>2, <2>1, TypeStep, TidyStep, PollsStep DEF DeviceInv
    <3>2. ASSUME site' = "orderly", ~faulty' PROVE OnTheWay'
      <4>1. site = "orderly" /\ ~faulty
        <5>1. site' = site /\ faulty' \in {faulty, TRUE}
          BY <1>2, <2>1, HistoryStep DEF DeviceInv
        <5>2. faulty => faulty'
          BY <5>1, Zenon
        <5>. QED BY <3>2, <5>1, <5>2
      <4>. QED BY <1>2, <2>1, <3>2, <4>1, WayStep DEF DeviceInv
    <3>. QED BY <3>1, <3>2 DEF DeviceInv
  <2>2. CASE UNCHANGED deviceVars
    <3>1. DeviceTypeOK' /\ Tidy' /\ Polls'
      BY <1>2, <2>2 DEF deviceVars, DeviceInv, DeviceTypeOK, Tidy, Polls
    <3>2. Landing' = Landing /\ Provider' = Provider
      BY <2>2 DEF deviceVars, Landing, Provider
    <3>3. OnTheWay' = OnTheWay
      <4>1. AtGitHub' = AtGitHub
        BY <2>2 DEF deviceVars, AtGitHub
      <4>2. AtProvider' = AtProvider
        BY <2>2, <3>2 DEF deviceVars, AtProvider
      <4>3. BackAtGitHub' = BackAtGitHub
        BY <2>2, <3>2 DEF deviceVars, BackAtGitHub
      <4>4. AllWell' = AllWell
        BY <2>2 DEF deviceVars, AllWell
      <4>. QED BY <4>1, <4>2, <4>3, <4>4 DEF OnTheWay
    <3>. QED BY <1>2, <2>2, <3>1, <3>3 DEF deviceVars, DeviceInv
  <2>. QED BY <1>2, <2>1, <2>2
<1>. QED BY <1>1, <1>2, PTL DEF DeviceSpec

\* Whatever interval GitHub asks for and however long a code is valid: no run leaves a browser or a
\* trace behind, none polls faster than it was told, and on an orderly site a run that ends without
\* a fault ends with a token.
THEOREM FlowHolds == DeviceSpec => []FlowIsSound
<1>1. DeviceInv => FlowIsSound
  BY DEF DeviceInv, Tidy, Polls, OnTheWay, AllWell, FlowIsSound, NoBrowserLeft, PollsNoFaster, OrderlySiteAuthorizes
<1>. QED BY <1>1, FlowInvariance, PTL

-----------------------------------------------------------------------------
(***************************************************************************)
(* The lease of the identity the flow is begun for: two initializations of *)
(* an identity are never under way within one lease, for any number of     *)
(* pods, requests, failures and crashes.                                   *)
(***************************************************************************)

\* A request whose lease is running has its claim in the row, and the row runs out no
\* sooner than the request believes.
Holding ==
  \A r \in Requests :
    request[r].claimed /\ request[r].age < Lease =>
      row.claim = r /\ row.left = Lease - request[r].age

LeaseIInv == LeaseTypeOK /\ Holding

ARequest == [at : Places, pod : Pods \cup {NoPod}, age : 0..Lease,
             claimed : BOOLEAN, created : BOOLEAN]

-----------------------------------------------------------------------------

\* No request is one of the two claims that are nobody's.
LEMMA ClaimNames == \A r \in Requests : r # Nobody /\ r # Dead
  BY LeaseAssumption DEF Nobody, Dead

LEMMA RestingType == Resting \in ARequest
  BY LeaseAssumption DEF Resting, ARequest, Places, Stages

LEMMA ClaimedType ==
  ASSUME NEW q \in ARequest, NEW s, s = [q EXCEPT !.at = "ensure", !.claimed = TRUE]
  PROVE  s \in ARequest /\ s.age = q.age
  <1>1. s = [[q EXCEPT !.at = "ensure"] EXCEPT !.claimed = TRUE]
    BY DEF ARequest
  <1>2. [q EXCEPT !.at = "ensure"] \in ARequest
    BY DEF ARequest, Places, Stages
  <1> QED
    BY <1>1, <1>2 DEF ARequest

\* A request that only goes on keeps what it holds.
LEMMA OnwardKeeps ==
  ASSUME LeaseIInv, NEW r \in Requests, request' \in [Requests -> ARequest],
         \A q \in Requests : request'[q].claimed => /\ request[q].claimed
                                                   /\ request'[q].age = request[q].age,
         row' = row
  PROVE  Holding'
  BY DEF LeaseIInv, Holding

LEMMA InitHolds == LeaseInit => LeaseIInv
  <1> SUFFICES ASSUME LeaseInit PROVE LeaseIInv
    OBVIOUS
  <1>1. request \in [Requests -> ARequest]
    BY RestingType DEF LeaseInit
  <1>2. row \in [claim : Requests \cup {Dead, Nobody}, left : -1..Lease]
    BY LeaseAssumption DEF LeaseInit, NoClaim
  <1>3. LeaseTypeOK
    BY <1>1, <1>2, LeaseAssumption DEF LeaseInit, LeaseTypeOK, ARequest
  <1>4. Holding
    BY DEF LeaseInit, Holding, Resting
  <1> QED
    BY <1>3, <1>4 DEF LeaseIInv

-----------------------------------------------------------------------------
(* One lemma for each kind of step. *)

LEMMA TickHolds == LeaseIInv /\ LeaseTick => LeaseIInv'
  <1> SUFFICES ASSUME LeaseIInv, LeaseTick PROVE LeaseIInv'
    OBVIOUS
  <1> USE LeaseAssumption
  <1>1. request \in [Requests -> ARequest] /\ row \in [claim : Requests \cup {Dead, Nobody}, left : -1..Lease]
    BY DEF LeaseIInv, LeaseTypeOK, ARequest
  <1>2. row' \in [claim : Requests \cup {Dead, Nobody}, left : -1..Lease]
    BY <1>1 DEF LeaseTick
  <1>3. ASSUME NEW r \in Requests
        PROVE /\ request'[r] \in ARequest
              /\ request'[r].claimed = request[r].claimed
              /\ request[r].claimed => request'[r].age = IF request[r].age < Lease THEN request[r].age + 1
                                                         ELSE request[r].age
    <2>1. request'[r] = IF r \in Claiming \cup Initializers /\ request[r].age < Lease
                        THEN [request[r] EXCEPT !.age = @ + 1] ELSE request[r]
      BY DEF LeaseTick
    <2>2. request[r] \in ARequest
      BY <1>1
    <2>3. request[r].claimed => r \in Initializers
      BY DEF Initializers
    <2> QED
      BY <2>1, <2>2, <2>3 DEF ARequest
  <1>4. request' \in [Requests -> ARequest]
    BY <1>3 DEF LeaseTick
  <1>5. LeaseTypeOK'
    BY <1>2, <1>4 DEF LeaseTick, LeaseIInv, LeaseTypeOK, ARequest
  <1>6. ASSUME NEW r \in Requests, request'[r].claimed, request'[r].age < Lease
        PROVE  row'.claim = r /\ row'.left = Lease - request'[r].age
    <2>1. request[r].claimed /\ request[r].age \in 0..Lease
      BY <1>1, <1>3, <1>6 DEF ARequest
    <2>2. request[r].age < Lease /\ request'[r].age = request[r].age + 1
      BY <1>3, <1>6, <2>1
    <2>3. row.claim = r /\ row.left = Lease - request[r].age
      BY <2>1, <2>2 DEF LeaseIInv, Holding
    <2>4. row.claim # Nobody /\ row.left >= 0
      BY <2>1, <2>2, <2>3, ClaimNames
    <2>5. row' = [row EXCEPT !.left = @ - 1]
      BY <2>4 DEF LeaseTick
    <2> QED
      BY <1>1, <2>1, <2>2, <2>3, <2>5
  <1> QED
    BY <1>5, <1>6 DEF LeaseIInv, Holding

\* The request takes the lease only when nobody's is running.
LEMMA ClaimedHolds ==
  ASSUME LeaseIInv, NEW r \in Requests, Claimed(r), row.claim = Nobody \/ Expired(r)
  PROVE  LeaseIInv'
  <1> USE LeaseAssumption
  <1>1. request \in [Requests -> ARequest] /\ row \in [claim : Requests \cup {Dead, Nobody}, left : -1..Lease]
    BY DEF LeaseIInv, LeaseTypeOK, ARequest
  <1>2. row' = [claim |-> r, left |-> Lease - request[r].age] /\ request[r].age \in 0..Lease
    BY <1>1 DEF Claimed, Term, ARequest
  <1>3. row' \in [claim : Requests \cup {Dead, Nobody}, left : -1..Lease]
    BY <1>2
  <1>4. ASSUME NEW q \in Requests, q # r PROVE request'[q] = request[q]
    BY <1>1, <1>4 DEF Claimed
  <1>5. request'[r] = [request[r] EXCEPT !.at = "ensure", !.claimed = TRUE]
    BY <1>1 DEF Claimed
  <1>6. request' \in [Requests -> ARequest]
    <2>1. request'[r] \in ARequest
      <3>1. request[r] \in ARequest
        BY <1>1
      <3> QED
        BY <1>5, <3>1, ClaimedType
    <2>2. request' = [request EXCEPT ![r] = request'[r]]
      BY <1>1, <1>5 DEF Claimed
    <2> QED
      BY <1>1, <2>1, <2>2
  <1>7. initializing' \in [Pods -> Requests \cup {Nobody}]
    BY DEF Claimed, LeaseIInv, LeaseTypeOK
  <1>8. LeaseTypeOK'
    BY <1>3, <1>6, <1>7 DEF Claimed, LeaseIInv, LeaseTypeOK, ARequest
  <1>9. ASSUME NEW q \in Requests, request'[q].claimed, request'[q].age < Lease
        PROVE  row'.claim = q /\ row'.left = Lease - request'[q].age
    <2>1. CASE q = r
      <3>1. request[r] \in ARequest
        BY <1>1
      <3>2. request'[r].age = request[r].age
        BY <1>5, <3>1, ClaimedType
      <3> QED
        BY <1>2, <2>1, <3>2
    <2>2. CASE q # r
      <3>1. row.claim = q /\ row.left = Lease - request[q].age /\ request[q].age < Lease
        BY <1>4, <1>9, <2>2 DEF LeaseIInv, Holding
      <3>2. request[q].age \in 0..Lease /\ request[r].age \in 0..Lease
        BY <1>1 DEF ARequest
      <3>3. ~Expired(r)
        BY <3>1, <3>2 DEF Expired
      <3> QED
        BY <3>1, <3>3, ClaimNames
    <2> QED
      BY <2>1, <2>2
  <1> QED
    BY <1>8, <1>9 DEF LeaseIInv, Holding

\* A request that gives its claim up, or goes down, leaves those of the others alone.
LEMMA RestsHolds ==
  ASSUME LeaseIInv, NEW gone \in SUBSET Requests,
         request' = [r \in Requests |-> IF r \in gone THEN Resting ELSE request[r]],
         row' \in [claim : Requests \cup {Dead, Nobody}, left : -1..Lease],
         row.claim \notin gone => row' = row
  PROVE  request' \in [Requests -> ARequest] /\ Holding'
  <1>1. request \in [Requests -> ARequest]
    BY DEF LeaseIInv, LeaseTypeOK, ARequest
  <1>2. request' \in [Requests -> ARequest]
    BY <1>1, RestingType
  <1>3. ASSUME NEW r \in Requests, request'[r].claimed, request'[r].age < Lease
        PROVE  row'.claim = r /\ row'.left = Lease - request'[r].age
    <2>1. r \notin gone
      BY <1>3 DEF Resting
    <2>2. request'[r] = request[r]
      BY <2>1
    <2>3. row.claim = r /\ row.left = Lease - request[r].age
      BY <1>3, <2>2 DEF LeaseIInv, Holding
    <2> QED
      BY <2>1, <2>2, <2>3
  <1> QED
    BY <1>2, <1>3 DEF Holding

LEMMA RestingHolds ==
  ASSUME LeaseIInv, NEW r \in Requests, Rests(r),
         row' \in [claim : Requests \cup {Dead, Nobody}, left : -1..Lease],
         row.claim # r => row' = row
  PROVE  request' \in [Requests -> ARequest] /\ Holding'
  <1>1. request \in [Requests -> ARequest]
    BY DEF LeaseIInv, LeaseTypeOK, ARequest
  <1> DEFINE gone == {r}
  <1>2. request' = [q \in Requests |-> IF q \in gone THEN Resting ELSE request[q]]
    BY <1>1 DEF Rests
  <1>3. /\ gone \in SUBSET Requests
        /\ row.claim \notin gone => row' = row
    OBVIOUS
  <1> HIDE DEF gone
  <1> QED
    BY <1>2, <1>3, RestsHolds

LEMMA MovesHolds ==
  ASSUME LeaseIInv, NEW r \in Requests, NEW place \in Places, Moves(r, place), row' = row
  PROVE  request' \in [Requests -> ARequest] /\ Holding'
  <1>1. request \in [Requests -> ARequest]
    BY DEF LeaseIInv, LeaseTypeOK, ARequest
  <1>2. request' \in [Requests -> ARequest]
    BY <1>1 DEF Moves, ARequest
  <1>3. \A q \in Requests : request'[q].claimed => /\ request[q].claimed
                                                   /\ request'[q].age = request[q].age
    BY <1>1 DEF Moves, ARequest
  <1> QED
    BY <1>2, <1>3, OnwardKeeps

\* Every step keeps the invariant.
LEMMA NextHolds == LeaseIInv /\ [LeaseNext]_leaseVars => LeaseIInv'
  <1> SUFFICES ASSUME LeaseIInv, [LeaseNext]_leaseVars PROVE LeaseIInv'
    OBVIOUS
  <1> USE LeaseAssumption
  <1>1. request \in [Requests -> ARequest] /\ row \in [claim : Requests \cup {Dead, Nobody}, left : -1..Lease]
    BY DEF LeaseIInv, LeaseTypeOK, ARequest
  <1>2. ASSUME request' \in [Requests -> ARequest] /\ Holding',
               row' \in [claim : Requests \cup {Dead, Nobody}, left : -1..Lease],
               initializing' \in [Pods -> Requests \cup {Nobody}],
               driver' \in Drivers, status' \in {"none", "refreshing", "failed"},
               completed' \in 0..2, failures' \in 0..MaxFailures, podCrashes' \in 0..MaxPodCrashes
        PROVE  LeaseIInv'
    BY <1>2 DEF LeaseIInv, LeaseTypeOK, ARequest
  <1>3. /\ initializing \in [Pods -> Requests \cup {Nobody}]
        /\ driver \in Drivers /\ status \in {"none", "refreshing", "failed"}
        /\ completed \in 0..2 /\ failures \in 0..MaxFailures /\ podCrashes \in 0..MaxPodCrashes
    BY DEF LeaseIInv, LeaseTypeOK
  <1>4. NoClaim \in [claim : Requests \cup {Dead, Nobody}, left : -1..Lease]
    BY DEF NoClaim
  <1>5. CASE LeaseTick
    BY <1>5, TickHolds
  <1>6. ASSUME NEW r \in Requests, NEW p \in Pods, GetAuth(r, p) PROVE LeaseIInv'
    <2> DEFINE f == [request EXCEPT ![r].at = "asked"]
    <2>0. f \in [Requests -> ARequest] /\ request' = [f EXCEPT ![r].pod = p]
      BY <1>1, <1>6 DEF GetAuth, ARequest, Places
    <2> HIDE DEF f
    <2>1. request' \in [Requests -> ARequest]
      BY <2>0 DEF ARequest
    <2>2. \A q \in Requests : request'[q].claimed => /\ request[q].claimed
                                                     /\ request'[q].age = request[q].age
      BY <1>1, <1>6 DEF GetAuth, ARequest
    <2>3. Holding'
      BY <1>6, <2>1, <2>2, OnwardKeeps DEF GetAuth
    <2> QED
      BY <1>1, <1>2, <1>3, <1>6, <2>1, <2>3 DEF GetAuth
  <1>7. ASSUME NEW p \in Pods, LeaseCrash(p) PROVE LeaseIInv'
    <2> DEFINE gone == {r \in Requests : request[r].pod = p}
    <2>1. request' = [r \in Requests |-> IF r \in gone THEN Resting ELSE request[r]]
      BY <1>7 DEF LeaseCrash
    <2>2. row' \in [claim : Requests \cup {Dead, Nobody}, left : -1..Lease]
      BY <1>1, <1>7 DEF LeaseCrash
    <2>3. row.claim \notin gone => row' = row
      BY <1>7 DEF LeaseCrash
    <2>4. gone \in SUBSET Requests
      OBVIOUS
    <2> HIDE DEF gone
    <2>5. request' \in [Requests -> ARequest] /\ Holding'
      BY <2>1, <2>2, <2>3, <2>4, RestsHolds
    <2>6. initializing' \in [Pods -> Requests \cup {Nobody}] /\ podCrashes' \in 0..MaxPodCrashes
      BY <1>3, <1>7 DEF LeaseCrash
    <2> QED
      BY <1>2, <1>3, <1>7, <2>2, <2>5, <2>6 DEF LeaseCrash
  <1>8. ASSUME NEW r \in Requests, NEW place \in Places, Moves(r, place),
               UNCHANGED <<driver, row, initializing>>,
               status' \in {"none", "refreshing", "failed"}, completed' \in 0..2,
               failures' \in 0..MaxFailures, podCrashes' = podCrashes
        PROVE  LeaseIInv'
    BY <1>1, <1>2, <1>3, <1>8, MovesHolds
  <1>9. ASSUME NEW r \in Requests, Rests(r), UNCHANGED <<driver, row, initializing, status, completed>>,
               failures' \in 0..MaxFailures, podCrashes' = podCrashes
        PROVE  LeaseIInv'
    BY <1>1, <1>2, <1>3, <1>9, RestingHolds
  <1>10. ASSUME NEW r \in Requests, Rests(r), row.claim # r => row' = row,
                row' \in [claim : Requests \cup {Dead, Nobody}, left : -1..Lease],
                initializing' = Forgets(r), UNCHANGED <<driver, status, completed>>,
                failures' \in 0..MaxFailures, podCrashes' = podCrashes
        PROVE  LeaseIInv'
    <2>1. initializing' \in [Pods -> Requests \cup {Nobody}]
      BY <1>3, <1>10 DEF Forgets
    <2>2. request' \in [Requests -> ARequest] /\ Holding'
      BY <1>10, RestingHolds
    <2> QED
      BY <1>2, <1>3, <1>10, <2>1, <2>2
  <1>11. ASSUME NEW r \in Requests, BeginIdentityInitialization(r) PROVE LeaseIInv'
    <2>1. CASE Rests(r)
      BY <1>3, <1>9, <1>11, <2>1 DEF BeginIdentityInitialization
    <2>2. CASE Moves(r, "claim")
      BY <1>3, <1>8, <1>11, <2>2 DEF BeginIdentityInitialization, Places
    <2> QED
      BY <1>11, <2>1, <2>2 DEF BeginIdentityInitialization
  <1>12. ASSUME NEW r \in Requests, NotClaimed(r) PROVE LeaseIInv'
    BY <1>3, <1>9, <1>12 DEF NotClaimed
  <1>13. ASSUME NEW r \in Requests, ClaimIdentityInitialization(r) PROVE LeaseIInv'
    <2>1. CASE Claimed(r) /\ (row.claim = Nobody \/ Expired(r))
      BY <2>1, ClaimedHolds
    <2>2. CASE NotClaimed(r)
      BY <1>12, <2>2
    <2>3. CASE Moves(r, "renew") /\ UNCHANGED <<driver, row, initializing, status, completed, failures, podCrashes>>
      BY <1>3, <1>8, <2>3 DEF Places
    <2> QED
      BY <1>13, <2>1, <2>2, <2>3 DEF ClaimIdentityInitialization
  <1>14. ASSUME NEW r \in Requests, RenewExpired(r) PROVE LeaseIInv'
    <2>1. CASE Claimed(r) /\ Expired(r)
      BY <2>1, ClaimedHolds
    <2>2. CASE NotClaimed(r)
      BY <1>12, <2>2
    <2> QED
      BY <1>14, <2>1, <2>2 DEF RenewExpired
  <1>15. ASSUME NEW r \in Requests, ClaimFails(r) PROVE LeaseIInv'
    <2>1. failures' \in 0..MaxFailures
      BY <1>3, <1>15 DEF ClaimFails
    <2>2. CASE Rests(r)
      BY <1>9, <1>15, <2>1, <2>2 DEF ClaimFails
    <2>3. CASE Moves(r, "claim")
      BY <1>3, <1>8, <1>15, <2>1, <2>3 DEF ClaimFails, Places
    <2> QED
      BY <1>15, <2>2, <2>3 DEF ClaimFails
  <1>16. ASSUME NEW r \in Requests, EnsureSsoUser(r) \/ SyncEmuUser(r) PROVE LeaseIInv'
    <2>1. \E place \in Places : Moves(r, place)
      BY <1>16 DEF EnsureSsoUser, SyncEmuUser, Places, Stages
    <2> QED
      BY <1>3, <1>8, <1>16, <2>1 DEF EnsureSsoUser, SyncEmuUser
  <1>17. ASSUME NEW r \in Requests, NEW password \in BOOLEAN, CreateAccount(r, password) PROVE LeaseIInv'
    <2> DEFINE f == [request EXCEPT ![r].at = IF password THEN "task" ELSE "release"]
               new == status = "none"
    <2>0. f \in [Requests -> ARequest] /\ request' = [f EXCEPT ![r].created = new]
      BY <1>1, <1>17 DEF CreateAccount, ARequest, Places, Stages
    <2>5. new \in BOOLEAN
      OBVIOUS
    <2> HIDE DEF f, new
    <2>1. request' \in [Requests -> ARequest]
      BY <2>0, <2>5 DEF ARequest
    <2>2. \A q \in Requests : request'[q].claimed => /\ request[q].claimed
                                                     /\ request'[q].age = request[q].age
      BY <1>1, <1>17 DEF CreateAccount, ARequest
    <2>3. Holding'
      BY <1>17, <2>1, <2>2, OnwardKeeps DEF CreateAccount
    <2>4. status' \in {"none", "refreshing", "failed"}
      BY <1>3, <1>17 DEF CreateAccount
    <2> QED
      BY <1>1, <1>2, <1>3, <1>17, <2>1, <2>3, <2>4 DEF CreateAccount
  <1>18. ASSUME NEW r \in Requests, CreateLoginTask(r) PROVE LeaseIInv'
    <2>1. completed' \in 0..2
      BY <1>3, <1>18 DEF CreateLoginTask
    <2> QED
      BY <1>3, <1>8, <1>18, <2>1 DEF CreateLoginTask, Places
  <1>19. ASSUME NEW r \in Requests, Fails(r) PROVE LeaseIInv'
    <2>1. failures' \in 0..MaxFailures /\ status' \in {"none", "refreshing", "failed"}
      BY <1>3, <1>19 DEF Fails
    <2> QED
      BY <1>3, <1>8, <1>19, <2>1 DEF Fails, Places
  <1>20. ASSUME NEW r \in Requests, ReleaseIdentityInitialization(r) PROVE LeaseIInv'
    <2>1. /\ row.claim # r => row' = row
          /\ row' \in [claim : Requests \cup {Dead, Nobody}, left : -1..Lease]
      BY <1>1, <1>4, <1>20 DEF ReleaseIdentityInitialization, Released
    <2> QED
      BY <1>3, <1>10, <1>20, <2>1 DEF ReleaseIdentityInitialization
  <1>21. ASSUME NEW r \in Requests, ReleaseFails(r) PROVE LeaseIInv'
    <2>1. /\ row.claim # r => row' = row
          /\ row' \in [claim : Requests \cup {Dead, Nobody}, left : -1..Lease]
          /\ failures' \in 0..MaxFailures
      BY <1>1, <1>3, <1>21 DEF ReleaseFails
    <2> QED
      BY <1>3, <1>10, <1>21, <2>1 DEF ReleaseFails
  <1>22. CASE UNCHANGED leaseVars
    BY <1>22 DEF leaseVars, LeaseIInv, LeaseTypeOK, Holding
  <1>23. ASSUME NEW r \in Requests, Advance(r) PROVE LeaseIInv'
    BY <1>11, <1>13, <1>14, <1>16, <1>17, <1>18, <1>20, <1>23 DEF Advance
  <1> QED
    BY <1>5, <1>6, <1>7, <1>15, <1>19, <1>21, <1>22, <1>23 DEF LeaseNext, AnyArrives

-----------------------------------------------------------------------------

\* The type invariant of the lease, and that who believes to hold it does.
THEOREM LeaseInvariance == LeaseSpec => []LeaseIInv
  <1>1. LeaseInit => LeaseIInv
    BY InitHolds
  <1>2. LeaseIInv /\ [LeaseNext]_leaseVars => LeaseIInv'
    BY NextHolds
  <1> QED
    BY <1>1, <1>2, PTL DEF LeaseSpec

\* For any number of pods and requests, whatever fails and crashes, and on either storage:
\* of two initializations under way at once the lease of one is over.
THEOREM LeaseIsExclusive == LeaseSpec => []LeaseExcludes
  <1>1. LeaseIInv => LeaseExcludes
    <2> SUFFICES ASSUME LeaseIInv, NEW q \in Initializers, NEW r \in Initializers, q # r
                 PROVE  request[q].age = Lease \/ request[r].age = Lease
      BY DEF LeaseExcludes
    <2>1. request[q].age \in 0..Lease /\ request[r].age \in 0..Lease
      BY DEF LeaseIInv, LeaseTypeOK, Initializers
    <2>2. ~(request[q].age < Lease /\ request[r].age < Lease)
      BY DEF LeaseIInv, Holding, Initializers
    <2> QED
      BY <2>1, <2>2, LeaseAssumption
  <1> QED
    BY <1>1, LeaseInvariance, PTL
=============================================================================
