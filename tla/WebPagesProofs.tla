--------------------------- MODULE WebPagesProofs ---------------------------
(***************************************************************************)
(* Proofs about the pages of the web application that keep state of their  *)
(* own: signing in, the lists with deletion, the forms, the pages of       *)
(* accounts, goals, rules and uploads, and the dashboard - first each with *)
(* the others at rest, then as the one specification of MCWebPages, for    *)
(* all values of the constants.                                            *)
(***************************************************************************)
EXTENDS MCWebPages, SumLemmas, FiniteSetTheorems, TLAPS

(***************************************************************************)
(* Signing in                                                              *)
(***************************************************************************)
Kinds == ButtonCalls \cup {"identify", "prepare", "signOut"}
TryPages == {"sign-in", "sign-up"}

TryTypes ==
    /\ attempts \in Nat
    /\ tries \subseteq [id : Nat, kind : Kinds, here : BOOLEAN]
    /\ nav # NoNav => nav \in [to : AppPages, passed : BOOLEAN]
    /\ submitted \in [TryPages -> Nat]

\* Whoever waits for an answer is on the page that asks for it.
AskedHere ==
    \A t \in tries : t.here =>
        /\ t.kind \in {"identify", "prepare", "password", "code"} => at = "sign-in"
        /\ t.kind \in {"register", "prepareSignUp"} => at = "sign-up" /\ step = "email"
        /\ t.kind \in ButtonCalls => at \in TryPages

\* A change of the session sends the browser through the proxy anew, so what
\* the proxy let pass still fits, and so does the page on screen.
Fits(to) == /\ to \in Protected => session
            /\ to \in TryPages => ~session
ProxyHolds == IF nav = NoNav THEN Fits(at) ELSE nav.passed => Fits(nav.to)

\* The calls behind the button of the step on screen.
OwnCalls == {t \in tries : t.here /\ t.kind \in ButtonCalls}
OneOwn == (busy <=> (OwnCalls # {})) /\ \A s, t \in OwnCalls : s = t

CallsOf(k) == {t \in tries : t.kind = k}
AskCalls(p) == CallsOf(IF p = "sign-in" THEN "identify" ELSE "register")
MailCalls(p) == CallsOf(IF p = "sign-in" THEN "prepare" ELSE "prepareSignUp")
PasswordCalls(p) == IF p = "sign-in" THEN CallsOf("password") ELSE {}

\* The one attempt of a page is asked about, then mailed for, then at a step
\* that wants what was mailed; or it goes by password, and nothing is mailed.
FirstAttempt(p) ==
    submitted[p] <= 1 =>
        /\ AskCalls(p) # {} => MailCalls(p) = {}
        /\ AskCalls(p) \cup MailCalls(p) # {} => PasswordCalls(p) = {} /\ (at = p => step = "email")
        /\ PasswordCalls(p) # {} /\ at = p => step # "otp"
        /\ at = p /\ step = "otp" => p \in mailed
        /\ \A s, t \in AskCalls(p) \cup MailCalls(p) : s = t

NoAttempt(p) ==
    submitted[p] = 0 =>
        /\ AskCalls(p) = {} /\ MailCalls(p) = {} /\ PasswordCalls(p) = {}
        /\ at = p => step = "email"

MailInv == \A p \in TryPages : FirstAttempt(p) /\ NoAttempt(p)

SessionInv ==
    SessionTypeOK /\ TryTypes /\ AskedHere /\ ProxyHolds /\ OneOwn /\ MailInv
USE SessionAssumption
    DEF SessionAssumption, sessionVars, pageState, mailState, StepCalls, ButtonCalls,
        Kinds, TryPages

LEMMA SessionStarts == SessionInit => SessionInv
<1>. SUFFICES ASSUME SessionInit PROVE SessionInv
  OBVIOUS
<1>. USE DEF SessionInit
<1>1. SessionTypeOK /\ TryTypes
  BY DEF SessionTypeOK, TryTypes, AppPages
<1>2. AskedHere /\ OneOwn
  BY DEF AskedHere, OneOwn, OwnCalls
<1>3. ProxyHolds
  BY DEF ProxyHolds, Fits, Protected
<1>4. MailInv
  BY DEF MailInv, FirstAttempt, NoAttempt, AskCalls, MailCalls, PasswordCalls, CallsOf
<1>. QED
  BY <1>1, <1>2, <1>3, <1>4 DEF SessionInv

\* Where the proxy sends the browser fits the session.
LEMMA ProxyFits ==
    ASSUME SessionTypeOK, NEW to \in AppPages
    PROVE  proxy(to) \in AppPages /\ Fits(proxy(to))
BY DEF SessionTypeOK, proxy, Fits, AppPages, AuthPages, Protected

\* A push asks the proxy anew, whatever became of the session.
LEMMA PushHolds ==
    ASSUME NEW to \in AppPages, Push(to)
    PROVE  /\ ProxyHolds' /\ nav' # NoNav /\ nav'.to \in AppPages
           /\ nav' \in [to : AppPages, passed : BOOLEAN]
<1>1. /\ nav' = [to |-> to, passed |-> FALSE]
      /\ nav' \in [to : AppPages, passed : BOOLEAN]
  BY DEF Push
<1>2. nav' # NoNav /\ nav'.to \in AppPages /\ ~nav'.passed
  BY <1>1
<1>. QED
  BY <1>1, <1>2 DEF ProxyHolds

\* A step that sends nothing, mails nothing and shows no later step of a page
\* leaves the attempts as far as they were.
LEMMA MailStays ==
    ASSUME MailInv, UNCHANGED submitted,
           \A k \in {"identify", "register", "prepare", "prepareSignUp", "password"} :
               CallsOf(k)' # {} => CallsOf(k) # {},
           \A p \in TryPages : (\A s, t \in AskCalls(p) \cup MailCalls(p) : s = t)
               => \A s, t \in AskCalls(p)' \cup MailCalls(p)' : s = t,
           \A p \in TryPages : at' = p => step' = "email" \/ (at = p /\ step' = step),
           \A p \in TryPages : at = p /\ step = "otp" /\ submitted[p] <= 1 /\ p \in mailed
               => p \in mailed'
    PROVE  MailInv'
<1>. SUFFICES ASSUME NEW p \in TryPages
              PROVE  FirstAttempt(p)' /\ NoAttempt(p)'
  BY DEF MailInv
<1>1. /\ AskCalls(p)' # {} => AskCalls(p) # {}
      /\ MailCalls(p)' # {} => MailCalls(p) # {}
      /\ PasswordCalls(p)' # {} => PasswordCalls(p) # {}
  BY DEF AskCalls, MailCalls, PasswordCalls
<1>2. FirstAttempt(p) /\ NoAttempt(p)
  BY DEF MailInv
<1>3. FirstAttempt(p)'
  BY <1>1, <1>2 DEF FirstAttempt
<1>4. NoAttempt(p)'
  BY <1>1, <1>2 DEF NoAttempt
<1>. QED
  BY <1>3, <1>4

\* The proxy is asked, a link is followed, Google sends the browser back.
LEMMA NavigationSteps ==
    ASSUME SessionInv, AskProxy \/ handleGoBack \/ AuthenticateWithRedirectCallback
    PROVE  SessionInv'
<1>. USE DEF SessionInv
<1>1. UNCHANGED <<pageState, tries, attempts, mailState>>
  BY DEF AskProxy, handleGoBack, AuthenticateWithRedirectCallback
<1>2. /\ session' \in BOOLEAN /\ ProxyHolds'
      /\ nav' # NoNav /\ nav'.to \in AppPages
      /\ nav' \in [to : AppPages, passed : BOOLEAN]
  <2>1. CASE AskProxy
    <3>1. nav.to \in AppPages
      BY <2>1 DEF AskProxy, TryTypes
    <3>2. PICK to \in AppPages : to = proxy(nav.to)
      BY <3>1, ProxyFits
    <3>3. Fits(to)
      BY <3>1, <3>2, ProxyFits
    <3>4. /\ nav' = [to |-> to, passed |-> TRUE] /\ session' = session
          /\ nav' \in [to : AppPages, passed : BOOLEAN]
      BY <2>1, <3>2 DEF AskProxy
    <3>5. nav' # NoNav /\ nav'.to = to
      BY <3>4
    <3>6. ProxyHolds'
      BY <3>3, <3>4, <3>5 DEF Fits, ProxyHolds
    <3>. QED
      BY <3>4, <3>5, <3>6 DEF SessionTypeOK
  <2>2. CASE handleGoBack
    BY <2>2, PushHolds DEF handleGoBack, SessionTypeOK, AppPages, AuthPages, Protected
  <2>3. CASE AuthenticateWithRedirectCallback
    BY <2>3, PushHolds DEF AuthenticateWithRedirectCallback, SessionTypeOK, AppPages,
                           AuthPages, Protected
  <2>. QED
    BY <2>1, <2>2, <2>3
<1>3. SessionTypeOK'
  BY <1>1, <1>2 DEF SessionTypeOK
<1>4. TryTypes'
  BY <1>1, <1>2 DEF TryTypes
<1>5. AskedHere' /\ OneOwn'
  BY <1>1 DEF AskedHere, OneOwn, OwnCalls
<1>6. MailInv'
  BY <1>1 DEF MailInv, FirstAttempt, NoAttempt, AskCalls, MailCalls, PasswordCalls, CallsOf
<1>. QED
  BY <1>2, <1>3, <1>4, <1>5, <1>6

\* Another page comes up: nobody on it waits for anything yet.
LEMMA PutUpStep == ASSUME SessionInv, PutUp PROVE SessionInv'
<1>. USE DEF SessionInv
<1>1. /\ nav # NoNav /\ nav.passed /\ nav' = NoNav /\ at' = nav.to
      /\ UNCHANGED <<session, attempts, mailState>>
      /\ nav.to \in AppPages
  BY DEF PutUp, TryTypes
<1>2. ProxyHolds'
  <2>1. Fits(nav.to)
    BY <1>1 DEF ProxyHolds
  <2>. QED
    BY <1>1, <2>1 DEF ProxyHolds, Fits
<1>3. CASE nav.to = at
  <2>1. UNCHANGED <<at, step, busy, tries>>
    BY <1>1, <1>3 DEF PutUp
  <2>2. SessionTypeOK' /\ TryTypes'
    BY <1>1, <2>1 DEF SessionTypeOK, TryTypes
  <2>3. AskedHere' /\ OneOwn'
    BY <2>1 DEF AskedHere, OneOwn, OwnCalls
  <2>4. MailInv'
    BY <1>1, <2>1 DEF MailInv, FirstAttempt, NoAttempt, AskCalls, MailCalls,
                      PasswordCalls, CallsOf
  <2>. QED
    BY <1>2, <2>2, <2>3, <2>4
<1>4. CASE nav.to # at
  <2>. DEFINE away(t) == [t EXCEPT !.here = FALSE]
  <2>1. step' = "email" /\ busy' = FALSE /\ tries' = {away(t) : t \in tries}
    BY <1>4 DEF PutUp
  <2>2. ASSUME NEW t \in tries
        PROVE  /\ away(t) \in [id : Nat, kind : Kinds, here : BOOLEAN]
               /\ ~away(t).here /\ away(t).kind = t.kind
    BY DEF TryTypes
  <2>. HIDE DEF away
  <2>3. SessionTypeOK'
    BY <1>1, <2>1 DEF SessionTypeOK
  <2>4. TryTypes'
    BY <1>1, <2>1, <2>2 DEF TryTypes
  <2>5. AskedHere' /\ OneOwn'
    BY <2>1, <2>2 DEF AskedHere, OneOwn, OwnCalls
  <2>6. ASSUME NEW k, NEW t \in CallsOf(k)'
        PROVE  \E s \in CallsOf(k) : t = away(s)
    BY <2>1, <2>2 DEF CallsOf
  <2>7. MailInv'
    <3>1. \A k \in Kinds : CallsOf(k)' # {} => CallsOf(k) # {}
      BY <2>6
    <3>2. ASSUME NEW p \in TryPages,
                 \A s, t \in AskCalls(p) \cup MailCalls(p) : s = t,
                 NEW s \in AskCalls(p)' \cup MailCalls(p)',
                 NEW t \in AskCalls(p)' \cup MailCalls(p)'
          PROVE  s = t
      <4>1. ASSUME NEW c \in AskCalls(p)' \cup MailCalls(p)'
            PROVE  \E b \in AskCalls(p) \cup MailCalls(p) : c = away(b)
        BY <2>6 DEF AskCalls, MailCalls
      <4>. QED
        BY <3>2, <4>1
    <3>. QED
      BY <1>1, <2>1, <3>1, <3>2, MailStays
  <2>. QED
    BY <1>2, <2>3, <2>4, <2>5, <2>7
<1>. QED
  BY <1>3, <1>4

\* A call to Clerk is made by the page on screen, and by a button that was on.
LEMMA NewCall ==
    ASSUME SessionInv, NEW k \in Kinds, Try(k), UNCHANGED <<at, step>>,
           IF k \in ButtonCalls THEN ~busy /\ busy' = TRUE ELSE busy' = busy,
           k \in {"identify", "prepare", "password", "code"} => at = "sign-in",
           k \in {"register", "prepareSignUp"} => at = "sign-up" /\ step = "email",
           k \in ButtonCalls => at \in TryPages
    PROVE  /\ attempts' \in Nat
           /\ tries' \subseteq [id : Nat, kind : Kinds, here : BOOLEAN]
           /\ AskedHere' /\ OneOwn'
           /\ \A j \in Kinds \ {k} : CallsOf(j)' = CallsOf(j)
           /\ CallsOf(k)' = CallsOf(k) \cup {[id |-> attempts, kind |-> k, here |-> TRUE]}
<1>. DEFINE new == [id |-> attempts, kind |-> k, here |-> TRUE]
<1>1. attempts' = attempts + 1 /\ tries' = tries \cup {new}
  BY DEF Try
<1>2. attempts' \in Nat /\ new \in [id : Nat, kind : Kinds, here : BOOLEAN]
  BY <1>1 DEF SessionInv, TryTypes
<1>3. new.kind = k /\ new.here
  OBVIOUS
<1>4. \A j \in Kinds \ {k} : CallsOf(j)' = CallsOf(j)
  BY <1>1, <1>3 DEF CallsOf
<1>5. CallsOf(k)' = CallsOf(k) \cup {new}
  BY <1>1, <1>3 DEF CallsOf
<1>. HIDE DEF new
<1>6. AskedHere'
  BY <1>1, <1>3 DEF SessionInv, AskedHere
<1>7. OneOwn'
  <2>1. CASE k \in ButtonCalls
    <3>1. OwnCalls = {}
      BY <2>1 DEF SessionInv, OneOwn
    <3>2. OwnCalls' = {new}
      BY <1>1, <1>3, <2>1, <3>1 DEF OwnCalls
    <3>. QED
      BY <2>1, <3>2 DEF OneOwn
  <2>2. CASE k \notin ButtonCalls
    <3>1. OwnCalls' = OwnCalls
      BY <1>1, <1>3, <2>2 DEF OwnCalls
    <3>. QED
      BY <2>2, <3>1 DEF SessionInv, OneOwn
  <2>. QED
    BY <2>1, <2>2
<1>. QED
  BY <1>1, <1>2, <1>4, <1>5, <1>6, <1>7 DEF SessionInv, TryTypes, new

\* An attempt is begun at the first step of its page.
LEMMA MailBegins ==
    ASSUME SessionInv, NEW p \in TryPages, at = p, step = "email",
           UNCHANGED <<at, step, mailed>>,
           submitted' = [submitted EXCEPT ![p] = @ + 1],
           NEW k \in Kinds, k = IF p = "sign-in" THEN "identify" ELSE "register",
           NEW new, CallsOf(k)' = CallsOf(k) \cup {new},
           \A j \in Kinds \ {k} : CallsOf(j)' = CallsOf(j)
    PROVE  MailInv'
<1>. USE DEF SessionInv
<1>1. /\ submitted'[p] = submitted[p] + 1 /\ submitted[p] \in Nat
      /\ \A q \in TryPages : q # p => submitted'[q] = submitted[q]
  BY DEF TryTypes
<1>2. ASSUME NEW q \in TryPages, q # p PROVE FirstAttempt(q)' /\ NoAttempt(q)'
  <2>1. AskCalls(q)' = AskCalls(q) /\ MailCalls(q)' = MailCalls(q)
        /\ PasswordCalls(q)' = PasswordCalls(q)
    BY <1>2 DEF AskCalls, MailCalls, PasswordCalls
  <2>2. FirstAttempt(q) /\ NoAttempt(q)
    BY DEF MailInv
  <2>3. FirstAttempt(q)'
    BY <1>1, <1>2, <2>1, <2>2 DEF FirstAttempt
  <2>4. NoAttempt(q)'
    BY <1>1, <1>2, <2>1, <2>2 DEF NoAttempt
  <2>. QED
    BY <2>3, <2>4
<1>3. NoAttempt(p)'
  BY <1>1 DEF NoAttempt
<1>4. FirstAttempt(p)'
  <2>. SUFFICES ASSUME submitted'[p] <= 1 PROVE FirstAttempt(p)'
    BY DEF FirstAttempt
  <2>1. AskCalls(p) = {} /\ MailCalls(p) = {} /\ PasswordCalls(p) = {}
    BY <1>1 DEF MailInv, NoAttempt
  <2>2. AskCalls(p)' = {new} /\ MailCalls(p)' = {} /\ PasswordCalls(p)' = {}
    BY <2>1 DEF AskCalls, MailCalls, PasswordCalls
  <2>. QED
    BY <2>2 DEF FirstAttempt
<1>. QED
  BY <1>2, <1>3, <1>4 DEF MailInv

LEMMA CallSteps ==
    ASSUME SessionInv,
           \/ handleEmailSubmit \/ handleSubmit \/ handlePasswordLogin
           \/ handleOtpVerification \/ Logout
    PROVE  SessionInv'
<1>. USE DEF SessionInv
<1>1. UNCHANGED <<session, at, step, walks, mailed>>
      /\ busy' \in BOOLEAN
  BY DEF handleEmailSubmit, handleSubmit, handlePasswordLogin, handleOtpVerification,
         Logout, SessionTypeOK
<1>2. PICK k \in Kinds :
        /\ Try(k)
        /\ IF k \in ButtonCalls THEN ~busy /\ busy' = TRUE ELSE busy' = busy
        /\ k \in {"identify", "prepare", "password", "code"} => at = "sign-in"
        /\ k \in {"register", "prepareSignUp"} => at = "sign-up" /\ step = "email"
        /\ k \in ButtonCalls => at \in TryPages
        /\ \/ /\ k = "identify" /\ at = "sign-in" /\ step = "email"
              /\ submitted' = [submitted EXCEPT !["sign-in"] = @ + 1]
           \/ /\ k = "register" /\ at = "sign-up" /\ step = "email"
              /\ submitted' = [submitted EXCEPT !["sign-up"] = @ + 1]
           \/ k = "password" /\ at = "sign-in" /\ step = "password" /\ submitted' = submitted
           \/ k \in {"code", "signUpCode", "signOut"} /\ submitted' = submitted
  <2>1. CASE handleEmailSubmit
    BY <2>1 DEF handleEmailSubmit
  <2>2. CASE handleSubmit
    BY <2>2 DEF handleSubmit
  <2>3. CASE handlePasswordLogin
    BY <2>3 DEF handlePasswordLogin
  <2>4. CASE handleOtpVerification
    BY <2>4 DEF handleOtpVerification
  <2>5. CASE Logout
    BY <2>5 DEF Logout
  <2>. QED
    BY <2>1, <2>2, <2>3, <2>4, <2>5
<1>3. /\ attempts' \in Nat
      /\ tries' \subseteq [id : Nat, kind : Kinds, here : BOOLEAN]
      /\ AskedHere' /\ OneOwn'
      /\ \A j \in Kinds \ {k} : CallsOf(j)' = CallsOf(j)
      /\ CallsOf(k)' = CallsOf(k) \cup {[id |-> attempts, kind |-> k, here |-> TRUE]}
  BY <1>1, <1>2, NewCall
<1>4. /\ ProxyHolds'
      /\ nav' # NoNav => nav'.to \in AppPages /\ nav' \in [to : AppPages, passed : BOOLEAN]
  <2>1. CASE Logout
    BY <2>1, PushHolds DEF Logout, AppPages, AuthPages
  <2>2. CASE UNCHANGED nav
    BY <1>1, <2>2 DEF ProxyHolds, Fits, TryTypes
  <2>. QED
    BY <2>1, <2>2 DEF handleEmailSubmit, handleSubmit, handlePasswordLogin,
                      handleOtpVerification
<1>5. SessionTypeOK'
  BY <1>1, <1>4 DEF SessionTypeOK
<1>6. submitted' \in [TryPages -> Nat]
  BY <1>2 DEF TryTypes
<1>7. TryTypes'
  BY <1>3, <1>4, <1>6 DEF TryTypes
<1>8. MailInv'
  <2>1. CASE k = "identify" \/ k = "register"
    <3>1. PICK p \in TryPages : /\ at = p /\ step = "email"
                                /\ k = IF p = "sign-in" THEN "identify" ELSE "register"
                                /\ submitted' = [submitted EXCEPT ![p] = @ + 1]
      BY <1>2, <2>1
    <3>. QED
      BY <1>1, <1>3, <3>1, MailBegins
  <2>2. CASE k \in {"code", "signUpCode", "signOut"}
    <3>1. \A p \in TryPages : /\ AskCalls(p)' = AskCalls(p) /\ MailCalls(p)' = MailCalls(p)
                              /\ PasswordCalls(p)' = PasswordCalls(p)
      BY <1>3, <2>2 DEF AskCalls, MailCalls, PasswordCalls
    <3>2. submitted' = submitted
      BY <1>2, <2>2
    <3>. QED
      BY <1>1, <3>1, <3>2 DEF MailInv, FirstAttempt, NoAttempt
  <2>3. CASE k = "password"
    <3>1. at = "sign-in" /\ step = "password" /\ submitted' = submitted
      BY <1>2, <2>3
    <3>2. \A p \in TryPages : /\ AskCalls(p)' = AskCalls(p) /\ MailCalls(p)' = MailCalls(p)
                              /\ p # at => PasswordCalls(p)' = PasswordCalls(p)
      BY <1>3, <2>3, <3>1 DEF AskCalls, MailCalls, PasswordCalls
    <3>3. ASSUME NEW p \in TryPages PROVE FirstAttempt(p)' /\ NoAttempt(p)'
      BY <1>1, <3>1, <3>2 DEF MailInv, FirstAttempt, NoAttempt
    <3>. QED
      BY <3>3 DEF MailInv
  <2>. QED
    BY <1>2, <2>1, <2>2, <2>3
<1>. QED
  BY <1>3, <1>4, <1>5, <1>7, <1>8

\* Google takes the tab: no call is left.
LEMMA RedirectStep == ASSUME SessionInv, authenticateWithRedirect PROVE SessionInv'
<1>. USE DEF SessionInv
<1>1. /\ nav = NoNav /\ attempts' = attempts + 1 /\ at' = "sso-callback"
      /\ step' = "email" /\ busy' = FALSE /\ tries' = {}
      /\ UNCHANGED <<session, nav, walks, mailState>>
  BY DEF authenticateWithRedirect
<1>2. SessionTypeOK' /\ TryTypes'
  <2>1. SessionTypeOK'
    BY <1>1 DEF SessionTypeOK, AppPages, AuthPages
  <2>2. TryTypes'
    BY <1>1 DEF TryTypes
  <2>. QED
    BY <2>1, <2>2
<1>3. AskedHere' /\ OneOwn'
  BY <1>1 DEF AskedHere, OneOwn, OwnCalls
<1>4. ProxyHolds'
  BY <1>1 DEF ProxyHolds, Fits, Protected
<1>5. MailInv'
  <2>1. \A k : CallsOf(k)' = {}
    BY <1>1 DEF CallsOf
  <2>. QED
    BY <1>1, <2>1 DEF MailInv, FirstAttempt, NoAttempt, AskCalls, MailCalls, PasswordCalls
<1>. QED
  BY <1>2, <1>3, <1>4, <1>5

\* What an answer may do to the calls: the call is over and its button is on
\* again; or another call takes its place; or the page goes to another step.
LEMMA CallEnds ==
    ASSUME SessionInv, NEW t \in tries, tries' = tries \ {t}, Finally(t),
           UNCHANGED <<at, step>>
    PROVE  /\ busy' \in BOOLEAN /\ AskedHere' /\ OneOwn'
           /\ \A k : CallsOf(k)' \subseteq CallsOf(k)
<1>1. busy' \in BOOLEAN
  BY DEF Finally, SessionInv, SessionTypeOK
<1>2. AskedHere'
  BY DEF SessionInv, AskedHere
<1>3. OneOwn'
  <2>1. CASE t \in OwnCalls
    <3>1. OwnCalls' = {}
      BY <2>1 DEF SessionInv, OneOwn, OwnCalls
    <3>2. busy' = FALSE
      BY <2>1 DEF OwnCalls, Finally
    <3>. QED
      BY <3>1, <3>2 DEF OneOwn
  <2>2. CASE t \notin OwnCalls
    <3>1. OwnCalls' = OwnCalls
      BY <2>2 DEF OwnCalls
    <3>2. busy' = busy
      BY <2>2 DEF OwnCalls, Finally
    <3>. QED
      BY <3>1, <3>2 DEF SessionInv, OneOwn
  <2>. QED
    BY <2>1, <2>2
<1>4. \A k : CallsOf(k)' \subseteq CallsOf(k)
  BY DEF CallsOf
<1>. QED
  BY <1>1, <1>2, <1>3, <1>4

LEMMA CallTurns ==
    ASSUME SessionInv, NEW t \in tries, NEW k \in Kinds, UNCHANGED <<at, step, busy>>,
           tries' = (tries \ {t}) \cup {[t EXCEPT !.kind = k]},
           \/ t.kind = "identify" /\ k = "prepare"
           \/ t.kind = "register" /\ k = "prepareSignUp"
           \/ t.kind \in {"password", "code", "signUpCode"} /\ k = "activate"
    PROVE  /\ tries' \subseteq [id : Nat, kind : Kinds, here : BOOLEAN]
           /\ AskedHere' /\ OneOwn'
           /\ \A j : j # k => CallsOf(j)' = CallsOf(j) \ {t}
           /\ CallsOf(k)' = CallsOf(k) \cup {[t EXCEPT !.kind = k]}
<1>. DEFINE next == [t EXCEPT !.kind = k]
<1>1. /\ next \in [id : Nat, kind : Kinds, here : BOOLEAN]
      /\ next.kind = k /\ next.here = t.here
  BY DEF SessionInv, TryTypes
<1>. HIDE DEF next
<1>2. tries' = (tries \ {t}) \cup {next}
  BY DEF next
<1>3. tries' \subseteq [id : Nat, kind : Kinds, here : BOOLEAN]
  BY <1>1, <1>2 DEF SessionInv, TryTypes
<1>4. AskedHere'
  BY <1>1, <1>2 DEF SessionInv, AskedHere
<1>5. OneOwn'
  <2>1. next \in OwnCalls' <=> t \in OwnCalls
    BY <1>1, <1>2 DEF OwnCalls
  <2>2. OwnCalls' \subseteq (OwnCalls \ {t}) \cup {next}
    BY <1>2 DEF OwnCalls
  <2>3. OwnCalls \ {t} \subseteq OwnCalls'
    BY <1>2 DEF OwnCalls
  <2>. QED
    BY <2>1, <2>2, <2>3 DEF SessionInv, OneOwn
<1>6. \A j : j # k => CallsOf(j)' = CallsOf(j) \ {t}
  BY <1>1, <1>2 DEF CallsOf
<1>7. CallsOf(k)' = CallsOf(k) \cup {next}
  BY <1>1, <1>2 DEF CallsOf
<1>. QED
  BY <1>3, <1>4, <1>5, <1>6, <1>7 DEF next

LEMMA PageTurns ==
    ASSUME SessionInv, NEW t \in tries, t.here, NEW s \in {"password", "otp"},
           t.kind \in {"identify", "prepare", "prepareSignUp"},
           StepTo(s, tries \ {t}), UNCHANGED at
    PROVE  /\ step' = s /\ busy' \in BOOLEAN
           /\ tries' \subseteq [id : Nat, kind : Kinds, here : BOOLEAN]
           /\ AskedHere' /\ OneOwn'
           /\ \A k \in Kinds \ StepCalls : CallsOf(k)' = CallsOf(k) \ {t}
           /\ CallsOf("password")' # {} => CallsOf("password") # {}
<1>. USE DEF SessionInv
<1>1. \A c \in tries \ {t} : c.here => c.kind \notin {"register", "prepareSignUp"}
  <2>1. CASE t.kind = "prepareSignUp"
    BY <2>1 DEF OneOwn, OwnCalls
  <2>2. CASE t.kind # "prepareSignUp"
    BY <2>2 DEF AskedHere
  <2>. QED
    BY <2>1, <2>2
<1>2. step' = s
  BY DEF StepTo
<1>3. CASE s = step
  <2>1. tries' = tries \ {t} /\ busy' = busy
    BY <1>3 DEF StepTo
  <2>2. t.kind # "prepareSignUp"
    BY <1>3 DEF AskedHere
  <2>3. OwnCalls' = OwnCalls
    BY <2>1, <2>2 DEF OwnCalls
  <2>4. AskedHere' /\ OneOwn'
    BY <1>2, <1>3, <2>1, <2>3 DEF AskedHere, OneOwn
  <2>. QED
    BY <1>2, <2>1, <2>4 DEF TryTypes, SessionTypeOK, CallsOf
<1>4. CASE s # step
  <2>. DEFINE gone(c) == IF c.kind \in StepCalls THEN [c EXCEPT !.here = FALSE] ELSE c
  <2>1. busy' = FALSE /\ tries' = {gone(c) : c \in tries \ {t}}
    BY <1>4 DEF StepTo
  <2>2. ASSUME NEW c \in tries
        PROVE  /\ gone(c) \in [id : Nat, kind : Kinds, here : BOOLEAN]
               /\ gone(c).kind = c.kind
               /\ c.kind \in StepCalls => ~gone(c).here
               /\ c.kind \notin StepCalls => gone(c) = c
    BY DEF TryTypes
  <2>. HIDE DEF gone
  <2>3. tries' \subseteq [id : Nat, kind : Kinds, here : BOOLEAN]
    BY <2>1, <2>2
  <2>4. ASSUME NEW c \in tries', c.here
        PROVE  c \in tries /\ c.kind \notin StepCalls \cup {"register", "prepareSignUp"}
    BY <1>1, <2>1, <2>2, <2>4
  <2>5. AskedHere'
    BY <2>4 DEF AskedHere
  <2>6. OneOwn'
    BY <2>1, <2>4 DEF OneOwn, OwnCalls
  <2>7. \A k \in Kinds \ StepCalls : CallsOf(k)' = CallsOf(k) \ {t}
    <3>. SUFFICES ASSUME NEW k \in Kinds \ StepCalls
                  PROVE  CallsOf(k)' = CallsOf(k) \ {t}
      OBVIOUS
    <3>1. ASSUME NEW c \in CallsOf(k)' PROVE c \in CallsOf(k) \ {t}
      BY <2>1, <2>2 DEF CallsOf
    <3>2. ASSUME NEW c \in CallsOf(k) \ {t} PROVE c \in CallsOf(k)'
      BY <2>1, <2>2 DEF CallsOf
    <3>. QED
      BY <3>1, <3>2
  <2>8. CallsOf("password")' # {} => CallsOf("password") # {}
    BY <2>1, <2>2 DEF CallsOf
  <2>. QED
    BY <1>2, <2>1, <2>3, <2>5, <2>6, <2>7, <2>8
<1>. QED
  BY <1>3, <1>4

\* The first answer to an attempt: its call now asks for the mail.
LEMMA MailIsAskedFor ==
    ASSUME SessionInv, NEW p \in TryPages, NEW t \in AskCalls(p), NEW new,
           UNCHANGED <<at, step, submitted>>, mailed' = mailed \ {p},
           AskCalls(p)' = AskCalls(p) \ {t}, MailCalls(p)' = MailCalls(p) \cup {new},
           PasswordCalls(p)' = PasswordCalls(p),
           \A q \in TryPages \ {p} : /\ AskCalls(q)' = AskCalls(q)
                                     /\ MailCalls(q)' = MailCalls(q)
                                     /\ PasswordCalls(q)' = PasswordCalls(q)
    PROVE  MailInv'
<1>1. ASSUME NEW q \in TryPages \ {p} PROVE FirstAttempt(q)' /\ NoAttempt(q)'
  BY DEF SessionInv, MailInv, FirstAttempt, NoAttempt
<1>2. FirstAttempt(p) /\ NoAttempt(p)
  BY DEF SessionInv, MailInv
<1>3. NoAttempt(p)'
  BY <1>2 DEF NoAttempt
<1>4. FirstAttempt(p)'
  <2>. SUFFICES ASSUME submitted[p] <= 1 PROVE FirstAttempt(p)'
    BY DEF FirstAttempt
  <2>1. /\ MailCalls(p) = {} /\ PasswordCalls(p) = {} /\ (at = p => step = "email")
        /\ AskCalls(p) = {t}
    BY <1>2 DEF FirstAttempt
  <2>2. AskCalls(p)' = {} /\ MailCalls(p)' = {new} /\ PasswordCalls(p)' = {}
    BY <2>1
  <2>. QED
    BY <2>1, <2>2 DEF FirstAttempt
<1>. QED
  BY <1>1, <1>3, <1>4 DEF MailInv

\* The answer that shows the next step: nothing else is under way for the page.
LEMMA MailIsAnswered ==
    ASSUME SessionInv, NEW p \in TryPages, NEW t \in AskCalls(p) \cup MailCalls(p),
           UNCHANGED <<at, submitted>>, at = p, step' \in {"password", "otp"},
           step' = "otp" => p \in mailed',
           \A q \in TryPages : /\ AskCalls(q)' = AskCalls(q) \ {t}
                               /\ MailCalls(q)' = MailCalls(q) \ {t}
                               /\ PasswordCalls(q)' # {} => PasswordCalls(q) # {}
    PROVE  MailInv'
<1>1. ASSUME NEW q \in TryPages, q # p PROVE FirstAttempt(q)' /\ NoAttempt(q)'
  BY <1>1 DEF SessionInv, MailInv, FirstAttempt, NoAttempt
<1>2. FirstAttempt(p) /\ NoAttempt(p)
  BY DEF SessionInv, MailInv
<1>3. NoAttempt(p)'
  BY <1>2 DEF NoAttempt
<1>4. FirstAttempt(p)'
  <2>. SUFFICES ASSUME submitted[p] <= 1 PROVE FirstAttempt(p)'
    BY DEF FirstAttempt
  <2>1. PasswordCalls(p) = {} /\ AskCalls(p) \cup MailCalls(p) = {t}
    BY <1>2 DEF FirstAttempt
  <2>2. AskCalls(p)' = {} /\ MailCalls(p)' = {} /\ PasswordCalls(p)' = {}
    BY <2>1
  <2>. QED
    BY <2>2 DEF FirstAttempt
<1>. QED
  BY <1>1, <1>3, <1>4 DEF MailInv

\* A call that ends or gives way, with no step shown, leaves the mail as it is,
\* unless it is what the code on screen does not depend on any more.
LEMMA MailIsLeft ==
    ASSUME SessionInv, UNCHANGED <<at, step, submitted>>,
           \A k \in Kinds \ {"activate"} : CallsOf(k)' \subseteq CallsOf(k),
           \/ mailed \subseteq mailed'
           \/ /\ mailed' = mailed \ {"sign-in"}
              /\ CallsOf("identify") \cup CallsOf("password") # {}
    PROVE  MailInv'
<1>1. ASSUME NEW p \in TryPages, at = p, step = "otp", submitted[p] <= 1, p \in mailed
      PROVE  p \in mailed'
  <2>1. FirstAttempt(p)
    BY DEF SessionInv, MailInv
  <2>2. p = "sign-in" => CallsOf("identify") = {} /\ CallsOf("password") = {}
    BY <1>1, <2>1 DEF FirstAttempt, AskCalls, PasswordCalls
  <2>. QED
    BY <1>1, <2>2
<1>2. \A k \in {"identify", "register", "prepare", "prepareSignUp", "password"} :
         CallsOf(k)' # {} => CallsOf(k) # {}
  OBVIOUS
<1>3. \A p \in TryPages : AskCalls(p)' \cup MailCalls(p)' \subseteq AskCalls(p) \cup MailCalls(p)
  BY DEF AskCalls, MailCalls
<1>. QED
  BY <1>1, <1>2, <1>3, MailStays DEF SessionInv

LEMMA IdentifiedStep == ASSUME SessionInv, Identified PROVE SessionInv'
<1>. USE DEF SessionInv
<1>1. PICK t \in tries :
        /\ t.kind = "identify" /\ mailed' = mailed \ {"sign-in"}
        /\ \/ CodeFactor(t)
           \/ t.here /\ StepTo("password", tries \ {t})
           \/ tries' = tries \ {t} /\ UNCHANGED <<step, busy>>
        /\ UNCHANGED <<session, at, nav, attempts, walks, submitted>>
  BY DEF Identified
<1>2. ProxyHolds'
  BY <1>1 DEF ProxyHolds, Fits
<1>3. t \in AskCalls("sign-in") /\ t \in CallsOf("identify")
  BY <1>1 DEF AskCalls, CallsOf
<1>4. CASE CodeFactor(t)
  <2>1. tries' = (tries \ {t}) \cup {[t EXCEPT !.kind = "prepare"]} /\ UNCHANGED <<step, busy>>
    BY <1>4 DEF CodeFactor
  <2>2. /\ tries' \subseteq [id : Nat, kind : Kinds, here : BOOLEAN]
        /\ AskedHere' /\ OneOwn'
        /\ \A j : j # "prepare" => CallsOf(j)' = CallsOf(j) \ {t}
        /\ CallsOf("prepare")' = CallsOf("prepare") \cup {[t EXCEPT !.kind = "prepare"]}
    BY <1>1, <2>1, CallTurns
  <2>3. SessionTypeOK' /\ TryTypes'
    BY <1>1, <2>1, <2>2 DEF SessionTypeOK, TryTypes
  <2>4. \A j \in Kinds \ {"identify"} : t \notin CallsOf(j)
    BY <1>1 DEF CallsOf
  <2>5. MailInv'
    <3>. DEFINE new == [t EXCEPT !.kind = "prepare"]
    <3>. HIDE DEF new
    <3>1. CallsOf("prepare")' = CallsOf("prepare") \cup {new}
      BY <2>2 DEF new
    <3>2. \A j \in Kinds \ {"prepare"} : CallsOf(j)' = CallsOf(j) \ {t}
      BY <2>2
    <3>3. /\ AskCalls("sign-in")' = AskCalls("sign-in") \ {t}
          /\ MailCalls("sign-in")' = MailCalls("sign-in") \cup {new}
          /\ PasswordCalls("sign-in")' = PasswordCalls("sign-in")
      BY <2>4, <3>2, <3>1 DEF AskCalls, MailCalls, PasswordCalls
    <3>4. /\ AskCalls("sign-up")' = AskCalls("sign-up")
          /\ MailCalls("sign-up")' = MailCalls("sign-up")
          /\ PasswordCalls("sign-up")' = PasswordCalls("sign-up")
      BY <2>2, <2>4 DEF AskCalls, MailCalls, PasswordCalls
    <3>. QED
      BY <1>1, <1>3, <2>1, <3>3, <3>4, MailIsAskedFor
  <2>. QED
    BY <1>2, <2>2, <2>3, <2>5
<1>5. CASE t.here /\ StepTo("password", tries \ {t})
  <2>1. /\ step' = "password" /\ busy' \in BOOLEAN
        /\ tries' \subseteq [id : Nat, kind : Kinds, here : BOOLEAN]
        /\ AskedHere' /\ OneOwn'
        /\ \A k \in Kinds \ StepCalls : CallsOf(k)' = CallsOf(k) \ {t}
        /\ CallsOf("password")' # {} => CallsOf("password") # {}
    BY <1>1, <1>5, PageTurns
  <2>2. at = "sign-in"
    BY <1>1, <1>5 DEF AskedHere
  <2>3. SessionTypeOK'
    BY <1>1, <2>1, <2>2 DEF SessionTypeOK
  <2>4. TryTypes'
    BY <1>1, <2>1 DEF TryTypes
  <2>5. MailInv'
    BY <1>1, <1>3, <2>1, <2>2, MailIsAnswered DEF AskCalls, MailCalls, PasswordCalls
  <2>. QED
    BY <1>2, <2>1, <2>3, <2>4, <2>5
<1>6. CASE tries' = tries \ {t} /\ UNCHANGED <<step, busy>>
  <2>1. Finally(t)
    BY <1>1, <1>6 DEF Finally
  <2>2. /\ busy' \in BOOLEAN /\ AskedHere' /\ OneOwn'
        /\ \A k : CallsOf(k)' \subseteq CallsOf(k)
    BY <1>1, <1>6, <2>1, CallEnds
  <2>3. SessionTypeOK' /\ TryTypes'
    BY <1>1, <1>6, <2>2 DEF SessionTypeOK, TryTypes
  <2>4. MailInv'
    BY <1>1, <1>3, <1>6, <2>2, MailIsLeft
  <2>. QED
    BY <1>2, <2>2, <2>3, <2>4
<1>. QED
  BY <1>1, <1>4, <1>5, <1>6

LEMMA PreparedStep == ASSUME SessionInv, Prepared PROVE SessionInv'
<1>. USE DEF SessionInv
<1>1. PICK t \in tries :
        /\ t.kind \in {"prepare", "prepareSignUp"}
        /\ mailed' = mailed \cup {IF t.kind = "prepare" THEN "sign-in" ELSE "sign-up"}
        /\ IF t.here THEN StepTo("otp", tries \ {t})
           ELSE tries' = tries \ {t} /\ UNCHANGED <<step, busy>>
        /\ UNCHANGED <<session, at, nav, attempts, walks, submitted>>
  BY DEF Prepared
<1>2. ProxyHolds'
  BY <1>1 DEF ProxyHolds, Fits
<1>3. mailed' \subseteq AuthPages /\ mailed \subseteq mailed'
  BY <1>1 DEF SessionTypeOK, AuthPages
<1>4. CASE t.here
  <2>1. /\ step' = "otp" /\ busy' \in BOOLEAN
        /\ tries' \subseteq [id : Nat, kind : Kinds, here : BOOLEAN]
        /\ AskedHere' /\ OneOwn'
        /\ \A k \in Kinds \ StepCalls : CallsOf(k)' = CallsOf(k) \ {t}
        /\ CallsOf("password")' # {} => CallsOf("password") # {}
    BY <1>1, <1>4, PageTurns
  <2>2. PICK p \in TryPages : at = p /\ t \in MailCalls(p) /\ p \in mailed'
    BY <1>1, <1>4 DEF AskedHere, MailCalls, CallsOf
  <2>3. SessionTypeOK'
    BY <1>1, <1>3, <2>1, <2>2 DEF SessionTypeOK
  <2>4. TryTypes'
    BY <1>1, <2>1 DEF TryTypes
  <2>5. MailInv'
    BY <1>1, <2>1, <2>2, MailIsAnswered DEF AskCalls, MailCalls, PasswordCalls
  <2>. QED
    BY <1>2, <2>1, <2>3, <2>4, <2>5
<1>5. CASE ~t.here
  <2>1. tries' = tries \ {t} /\ Finally(t) /\ UNCHANGED <<step, busy>>
    BY <1>1, <1>5 DEF Finally
  <2>2. /\ busy' \in BOOLEAN /\ AskedHere' /\ OneOwn'
        /\ \A k : CallsOf(k)' \subseteq CallsOf(k)
    BY <1>1, <2>1, CallEnds
  <2>3. SessionTypeOK' /\ TryTypes'
    BY <1>1, <1>3, <2>1, <2>2 DEF SessionTypeOK, TryTypes
  <2>4. MailInv'
    BY <1>1, <1>3, <2>1, <2>2, MailIsLeft
  <2>. QED
    BY <1>2, <2>2, <2>3, <2>4
<1>. QED
  BY <1>4, <1>5

LEMMA RegisteredStep == ASSUME SessionInv, Registered PROVE SessionInv'
<1>. USE DEF SessionInv
<1>1. PICK t \in tries :
        /\ t.kind = "register" /\ mailed' = mailed \ {"sign-up"}
        /\ tries' = (tries \ {t}) \cup {[t EXCEPT !.kind = "prepareSignUp"]}
        /\ UNCHANGED <<session, pageState, nav, attempts, walks, submitted>>
  BY DEF Registered
<1>2. /\ tries' \subseteq [id : Nat, kind : Kinds, here : BOOLEAN]
      /\ AskedHere' /\ OneOwn'
      /\ \A j : j # "prepareSignUp" => CallsOf(j)' = CallsOf(j) \ {t}
      /\ CallsOf("prepareSignUp")'
           = CallsOf("prepareSignUp") \cup {[t EXCEPT !.kind = "prepareSignUp"]}
  BY <1>1, CallTurns
<1>3. ProxyHolds'
  BY <1>1 DEF ProxyHolds, Fits
<1>4. SessionTypeOK' /\ TryTypes'
  BY <1>1, <1>2 DEF SessionTypeOK, TryTypes
<1>5. MailInv'
  <2>. DEFINE new == [t EXCEPT !.kind = "prepareSignUp"]
  <2>. HIDE DEF new
  <2>1. CallsOf("prepareSignUp")' = CallsOf("prepareSignUp") \cup {new}
    BY <1>2 DEF new
  <2>2. t \in AskCalls("sign-up") /\ \A j \in Kinds \ {"register"} : t \notin CallsOf(j)
    BY <1>1 DEF AskCalls, CallsOf
  <2>3. \A j \in Kinds \ {"prepareSignUp"} : CallsOf(j)' = CallsOf(j) \ {t}
    BY <1>2
  <2>4. /\ AskCalls("sign-up")' = AskCalls("sign-up") \ {t}
        /\ MailCalls("sign-up")' = MailCalls("sign-up") \cup {new}
        /\ PasswordCalls("sign-up")' = PasswordCalls("sign-up")
    BY <2>1, <2>3 DEF AskCalls, MailCalls, PasswordCalls
  <2>5. /\ AskCalls("sign-in")' = AskCalls("sign-in")
        /\ MailCalls("sign-in")' = MailCalls("sign-in")
        /\ PasswordCalls("sign-in")' = PasswordCalls("sign-in")
    BY <2>2, <2>3 DEF AskCalls, MailCalls, PasswordCalls
  <2>. QED
    BY <1>1, <2>2, <2>4, <2>5, MailIsAskedFor
<1>. QED
  BY <1>2, <1>3, <1>4, <1>5

LEMMA CompleteStep == ASSUME SessionInv, Complete PROVE SessionInv'
<1>. USE DEF SessionInv
<1>1. PICK t \in tries :
        /\ t.kind \in {"password", "code", "signUpCode"}
        /\ tries' = (tries \ {t}) \cup {[t EXCEPT !.kind = "activate"]}
        /\ mailed' = IF t.kind = "password" THEN mailed \ {"sign-in"} ELSE mailed
        /\ UNCHANGED <<session, pageState, nav, attempts, walks, submitted>>
  BY DEF Complete
<1>2. /\ tries' \subseteq [id : Nat, kind : Kinds, here : BOOLEAN]
      /\ AskedHere' /\ OneOwn'
      /\ \A j : j # "activate" => CallsOf(j)' = CallsOf(j) \ {t}
  BY <1>1, CallTurns
<1>3. ProxyHolds'
  BY <1>1 DEF ProxyHolds, Fits
<1>4. SessionTypeOK' /\ TryTypes'
  BY <1>1, <1>2 DEF SessionTypeOK, TryTypes
<1>5. MailInv'
  <2>1. t.kind = "password" => CallsOf("password") # {}
    BY DEF CallsOf
  <2>. QED
    BY <1>1, <1>2, <2>1, MailIsLeft
<1>. QED
  BY <1>2, <1>3, <1>4, <1>5

\* A call is over: with a session, without one, or with nothing.
LEMMA EndSteps ==
    ASSUME SessionInv, Activated \/ Failed \/ SignedOut PROVE SessionInv'
<1>. USE DEF SessionInv
<1>1. PICK t \in tries :
        /\ tries' = tries \ {t} /\ Finally(t) /\ session' \in BOOLEAN
        /\ UNCHANGED <<at, step, attempts, walks, mailState>>
        /\ Push("dashboard") \/ Push("home") \/ UNCHANGED <<session, nav>>
  <2>1. CASE Activated
    BY <2>1 DEF Activated, setActive
  <2>2. CASE Failed
    BY <2>2 DEF Failed, setError, SessionTypeOK
  <2>3. CASE SignedOut
    BY <2>3 DEF SignedOut, Finally, SessionTypeOK
  <2>. QED
    BY <2>1, <2>2, <2>3
<1>2. /\ ProxyHolds'
      /\ nav' # NoNav => nav'.to \in AppPages /\ nav' \in [to : AppPages, passed : BOOLEAN]
  <2>1. CASE Push("dashboard") \/ Push("home")
    BY <2>1, PushHolds DEF AppPages, Protected
  <2>2. CASE UNCHANGED <<session, nav>>
    BY <1>1, <2>2 DEF ProxyHolds, Fits, TryTypes
  <2>. QED
    BY <1>1, <2>1, <2>2
<1>3. /\ busy' \in BOOLEAN /\ AskedHere' /\ OneOwn'
      /\ \A k : CallsOf(k)' \subseteq CallsOf(k)
  BY <1>1, CallEnds
<1>4. SessionTypeOK' /\ TryTypes'
  BY <1>1, <1>2, <1>3 DEF SessionTypeOK, TryTypes
<1>5. MailInv'
  BY <1>1, <1>3, MailIsLeft
<1>. QED
  BY <1>2, <1>3, <1>4, <1>5

LEMMA SessionStep == SessionInv /\ [SessionNext]_sessionVars => SessionInv'
<1>. SUFFICES ASSUME SessionInv, [SessionNext]_sessionVars PROVE SessionInv'
  OBVIOUS
<1>1. CASE AskProxy \/ handleGoBack \/ AuthenticateWithRedirectCallback
  BY <1>1, NavigationSteps
<1>2. CASE PutUp
  BY <1>2, PutUpStep
<1>3. CASE \/ handleEmailSubmit \/ handleSubmit \/ handlePasswordLogin
           \/ handleOtpVerification \/ Logout
  BY <1>3, CallSteps
<1>4. CASE authenticateWithRedirect
  BY <1>4, RedirectStep
<1>5. CASE Identified \/ Prepared \/ Registered \/ Complete
  BY <1>5, IdentifiedStep, PreparedStep, RegisteredStep, CompleteStep
<1>6. CASE Activated \/ Failed \/ SignedOut
  BY <1>6, EndSteps
<1>7. CASE UNCHANGED sessionVars
  BY <1>7 DEF SessionInv, SessionTypeOK, TryTypes, AskedHere, ProxyHolds, Fits, OneOwn,
              OwnCalls, MailInv, FirstAttempt, NoAttempt, AskCalls, MailCalls,
              PasswordCalls, CallsOf
<1>. QED
  BY <1>1, <1>2, <1>3, <1>4, <1>5, <1>6, <1>7 DEF SessionNext

LEMMA SessionIsWhatItSays == SessionInv => SessionSafe
<1>. SUFFICES ASSUME SessionInv
              PROVE  PageFitsSession /\ OneTryAtATime /\ CodeWasMailed
  BY DEF SessionInv, SessionSafe
<1>. USE DEF SessionInv
<1>1. PageFitsSession
  BY DEF ProxyHolds, Fits, PageFitsSession
<1>2. OneTryAtATime
  <2>1. OwnCalls = {} \/ \E t \in OwnCalls : OwnCalls = {t}
    BY DEF OneOwn
  <2>2. Cardinality(OwnCalls) <= 1
    BY <2>1, FS_EmptySet, FS_Singleton
  <2>. QED
    BY <2>2 DEF OneOwn, OwnCalls, OneTryAtATime
<1>3. CodeWasMailed
  <2>1. step = "otp" => at \in TryPages /\ submitted[at] \in Nat
    BY DEF SessionTypeOK, TryTypes
  <2>. QED
    BY <2>1 DEF MailInv, FirstAttempt, CodeWasMailed
<1>. QED
  BY <1>1, <1>2, <1>3

\* The pages, the proxy and Clerk agree on who is signed in; a step's button is
\* off exactly while its one call is in flight; a page asks for a code only
\* after one was mailed, as long as its attempt is its only one (SignIn, SignUp,
\* proxy.ts, the sidebar's Logout).
THEOREM SessionIsSafe == SessionSpec => []SessionSafe
<1>1. SessionSpec => []SessionInv
  BY SessionStarts, SessionStep, PTL DEF SessionSpec
<1>. QED
  BY <1>1, SessionIsWhatItSays, PTL

HIDE SessionAssumption
    DEF SessionAssumption, sessionVars, pageState, mailState, StepCalls, ButtonCalls,
        Kinds, TryPages

(***************************************************************************)
(* The lists with deletion                                                 *)
(***************************************************************************)

\* The deletes on their way, and what the user confirmed.
DeleteTypes ==
    /\ asked \subseteq RowIds /\ sends \in Nat
    /\ deletes \subseteq [no : 1..sends, ids : SUBSET asked,
                          clears : {"victim", "ticked", "nothing"}, done : BOOLEAN]

\* The one row that may still be made has been seen by nobody.
NewRowUnseen ==
    Newest \in others => /\ Newest \notin live \cup asked \cup ticked
                         /\ victim # 0 => victim # Newest
                         /\ rows # NoRows => Newest \notin rows

\* A row the user had deleted that is there yet is one a lost request was for,
\* or one that a request still to be served is for.
AskedUnderWay ==
    /\ \A r \in asked \cap live :
          r \in undone \/ \E d \in deletes : ~d.done /\ r \in d.ids
    /\ RowIds \ live \subseteq asked \cup others

ListInv == TablesTypeOK /\ DialogNamesRows /\ DeleteTypes /\ NewRowUnseen /\ AskedUnderWay

USE TablesAssumption DEF TablesAssumption, listVars, fetched, paged, chosen, flying, past

LEMMA TablesStart == TablesInit => ListInv
<1>. SUFFICES ASSUME TablesInit PROVE ListInv
  OBVIOUS
<1>. USE DEF TablesInit
<1>1. DefaultSize \in PageSizes
  BY DEF DefaultSize
<1>2. TablesTypeOK
  BY <1>1 DEF TablesTypeOK
<1>3. DialogNamesRows /\ DeleteTypes /\ AskedUnderWay
  BY DEF DialogNamesRows, DeleteTypes, AskedUnderWay
<1>4. NewRowUnseen
  BY DEF NewRowUnseen
<1>. QED
  BY <1>2, <1>3, <1>4 DEF ListInv

\* What is listed are rows of the page.
LEMMA ListedAreRows ==
    ASSUME ListInv, Visible
    PROVE  /\ Listed \subseteq rows /\ rows \subseteq RowIds
           /\ Newest \in others => Newest \notin rows
<1>1. rows \subseteq RowIds /\ (Newest \in others => Newest \notin rows)
  BY DEF ListInv, TablesTypeOK, NewRowUnseen, Visible
<1>2. Listed \subseteq rows
  BY DEF Listed, filteredRows, filtered
<1>. QED
  BY <1>1, <1>2

\* Filtering, paging and fetching touch no tick and no delete.
LEMMA LookSteps ==
    ASSUME ListInv,
           \/ \E f \in {"none", "alike"} : onFilterChange(f)
           \/ \E s \in PageSizes : onPageSizeChange(s)
           \/ \E p \in 1..MaxPage : onPageChange(p)
           \/ FetchRows \/ FetchRowsFails
    PROVE  ListInv'
<1>. USE DEF ListInv
<1>1. /\ UNCHANGED <<listing, live, ticked, victim, dialog, deletes, sends, asked,
                     undone, others>>
      /\ rows' \in {rows, live}
      /\ pageNo' \in 1..MaxPage /\ pageSize' \in PageSizes
      /\ listing = "links" => pageNo' = 1
  BY DEF onFilterChange, onPageSizeChange, onPageChange, FetchRows, FetchRowsFails,
         Pageable, TablesTypeOK
<1>2. TablesTypeOK'
  BY <1>1 DEF TablesTypeOK
<1>3. DialogNamesRows' /\ DeleteTypes' /\ AskedUnderWay'
  BY <1>1 DEF DialogNamesRows, DeleteTypes, AskedUnderWay
<1>4. NewRowUnseen'
  BY <1>1 DEF NewRowUnseen
<1>. QED
  BY <1>2, <1>3, <1>4

\* Ticks and dialogs are of rows on the page.
LEMMA TickSteps ==
    ASSUME ListInv,
           \/ \E r \in RowIds : toggleSelect(r) \/ handleDeleteClick(r)
           \/ toggleSelectAll \/ openBulkDialog \/ handleDeleteCancel
    PROVE  ListInv'
<1>. USE DEF ListInv
<1>1. /\ UNCHANGED <<listing, live, rows, pageNo, pageSize, deletes, sends, asked,
                     undone, others>>
      /\ Visible
  BY DEF toggleSelect, handleDeleteClick, toggleSelectAll, openBulkDialog,
         handleDeleteCancel, Pageable, RowActions, TanStackTable
<1>2. /\ ticked' \subseteq ticked \cup rows /\ victim' \in {0, victim} \cup rows
      /\ listing = "links" => UNCHANGED ticked /\ dialog' \in {"none", dialog}
      /\ dialog' = "single" => victim' # 0
      /\ dialog' = "bulk" => ticked' # {}
  <2>1. CASE toggleSelectAll
    BY <1>1, <2>1, ListedAreRows DEF toggleSelectAll, Pageable, DialogNamesRows
  <2>2. CASE openBulkDialog
    BY <2>2 DEF openBulkDialog, Pageable
  <2>3. CASE handleDeleteCancel
    BY <2>3 DEF handleDeleteCancel
  <2>4. CASE \E r \in RowIds : toggleSelect(r)
    BY <1>1, <2>4, ListedAreRows DEF toggleSelect, TanStackTable, Pageable
  <2>5. CASE \E r \in RowIds : handleDeleteClick(r)
    BY <1>1, <2>5, ListedAreRows DEF handleDeleteClick, RowActions, TanStackTable
  <2>. QED
    BY <2>1, <2>2, <2>3, <2>4, <2>5
<1>3. rows \subseteq RowIds /\ (Newest \in others => Newest \notin rows)
  BY <1>1, ListedAreRows
<1>4. TablesTypeOK'
  BY <1>1, <1>2, <1>3 DEF TablesTypeOK
<1>5. DialogNamesRows' /\ DeleteTypes' /\ AskedUnderWay'
  BY <1>1, <1>2 DEF DialogNamesRows, DeleteTypes, AskedUnderWay
<1>6. NewRowUnseen'
  BY <1>1, <1>2, <1>3 DEF NewRowUnseen
<1>. QED
  BY <1>4, <1>5, <1>6

\* Rows whose deletion is confirmed are each in a request of their own batch.
LEMMA SentBatches ==
    ASSUME ListInv, NEW B, IsFiniteSet(B), UNION B \subseteq RowIds,
           NEW c \in {"victim", "ticked", "nothing"}, mutateDelete(B, c),
           UNCHANGED <<live, undone, others>>
    PROVE  /\ asked' = asked \cup UNION B
           /\ DeleteTypes' /\ AskedUnderWay'
           /\ \A d \in deletes' : d.no \in 1..sends'
<1>1. PICK nth \in [B -> sends + 1 .. sends'] :
         deletes' = deletes \cup
            {[no |-> nth[b], ids |-> b, clears |-> c, done |-> FALSE] : b \in B}
  BY DEF mutateDelete
<1>2. asked' = asked \cup UNION B /\ sends' \in Nat /\ sends <= sends'
  BY FS_CardinalityType DEF mutateDelete, ListInv, DeleteTypes
<1>3. \A d \in deletes : d \in [no : 1..sends', ids : SUBSET asked',
                                clears : {"victim", "ticked", "nothing"}, done : BOOLEAN]
  BY <1>2 DEF ListInv, DeleteTypes
<1>4. \A b \in B : [no |-> nth[b], ids |-> b, clears |-> c, done |-> FALSE]
                      \in [no : 1..sends', ids : SUBSET asked',
                           clears : {"victim", "ticked", "nothing"}, done : BOOLEAN]
  BY <1>2 DEF ListInv, DeleteTypes
<1>5. DeleteTypes'
  <2>. DEFINE D == [no : 1..sends', ids : SUBSET asked',
                    clears : {"victim", "ticked", "nothing"}, done : BOOLEAN]
  <2>1. \A d \in deletes : d \in D
    BY <1>3
  <2>2. \A b \in B : [no |-> nth[b], ids |-> b, clears |-> c, done |-> FALSE] \in D
    BY <1>4
  <2>3. asked' \subseteq RowIds
    BY <1>2 DEF ListInv, DeleteTypes
  <2>. HIDE DEF D
  <2>4. deletes' \subseteq D
    BY <1>1, <2>1, <2>2
  <2>. QED
    BY <1>2, <2>3, <2>4 DEF DeleteTypes, D
<1>6. AskedUnderWay'
  <2>1. ASSUME NEW r \in asked' \cap live'
        PROVE  r \in undone \/ \E d \in deletes' : ~d.done /\ r \in d.ids
    <3>1. CASE r \in asked
      BY <1>1, <3>1 DEF ListInv, AskedUnderWay
    <3>2. CASE r \notin asked
      <4>1. PICK b \in B : r \in b
        BY <1>2, <3>2
      <4>. DEFINE d == [no |-> nth[b], ids |-> b, clears |-> c, done |-> FALSE]
      <4>2. d \in deletes' /\ ~d.done /\ r \in d.ids
        BY <1>1, <4>1
      <4>. QED
        BY <4>2
    <3>. QED
      BY <3>1, <3>2
  <2>. QED
    BY <1>2, <2>1 DEF ListInv, AskedUnderWay
<1>7. \A d \in deletes' : d.no \in 1..sends'
  BY <1>5 DEF DeleteTypes
<1>. QED
  BY <1>2, <1>5, <1>6, <1>7

\* As many requests as rows: finitely many.
LEMMA OneEach == ASSUME NEW S, IsFiniteSet(S) PROVE IsFiniteSet({{r} : r \in S})
<1>. DEFINE f == [r \in S |-> {r}]
<1>1. f \in Surjection(S, {{r} : r \in S})
  BY DEF Surjection
<1>. QED
  BY <1>1, FS_Surjection

\* Confirming sends the rows the dialog names, and closes it.
LEMMA ConfirmSteps ==
    ASSUME ListInv,
           \/ handleDeleteConfirm \/ handleBulkDelete
           \/ \E r \in RowIds : LinkedTransactionsTable(r)
    PROVE  ListInv'
<1>. USE DEF ListInv
<1>1. /\ UNCHANGED <<listing, live, rows, pageNo, pageSize, victim, undone, others>>
      /\ Visible /\ ticked' \in {ticked, {}}
      /\ dialog' = "none" \/ UNCHANGED <<ticked, dialog>>
      /\ listing = "links" => UNCHANGED <<ticked, dialog>>
  BY DEF handleDeleteConfirm, handleBulkDelete, LinkedTransactionsTable, TanStackTable,
         TablesTypeOK
<1>2. \E B, c : /\ IsFiniteSet(B) /\ UNION B \subseteq RowIds
                /\ Newest \in others => Newest \notin UNION B
                /\ c \in {"victim", "ticked", "nothing"} /\ mutateDelete(B, c)
  <2>1. CASE handleDeleteConfirm
    <3>1. victim \in RowIds /\ (Newest \in others => victim # Newest)
      BY <2>1 DEF handleDeleteConfirm, TablesTypeOK, DialogNamesRows, NewRowUnseen
    <3>2. mutateDelete({{victim}}, "victim") /\ IsFiniteSet({{victim}})
      BY <2>1, FS_Singleton DEF handleDeleteConfirm
    <3>. QED
      BY <3>1, <3>2
  <2>2. CASE handleBulkDelete
    <3>1. ticked \subseteq RowIds /\ (Newest \in others => Newest \notin ticked)
      BY DEF TablesTypeOK, NewRowUnseen
    <3>2. CASE listing = "transactions"
      <4>1. mutateDelete({ticked}, "ticked") /\ IsFiniteSet({ticked})
        BY <2>2, <3>2, FS_Singleton DEF handleBulkDelete
      <4>. QED
        BY <3>1, <4>1
    <3>3. CASE listing # "transactions"
      <4>. DEFINE B == {{r} : r \in ticked}
      <4>1. mutateDelete(B, "nothing") /\ UNION B = ticked
        BY <2>2, <3>3 DEF handleBulkDelete
      <4>2. IsFiniteSet(B)
        BY <3>1, FS_Subset, OneEach
      <4>. HIDE DEF B
      <4>. QED
        BY <3>1, <4>1, <4>2
    <3>. QED
      BY <3>2, <3>3
  <2>3. CASE \E r \in RowIds : LinkedTransactionsTable(r)
    <3>1. PICK r \in RowIds : LinkedTransactionsTable(r)
      BY <2>3
    <3>2. /\ mutateDelete({{r}}, "nothing") /\ IsFiniteSet({{r}})
          /\ Newest \in others => r # Newest
      BY <1>1, <3>1, ListedAreRows, FS_Singleton DEF LinkedTransactionsTable, TanStackTable
    <3>. QED
      BY <3>2
  <2>. QED
    BY <2>1, <2>2, <2>3
<1>3. PICK B, c : /\ IsFiniteSet(B) /\ UNION B \subseteq RowIds
                  /\ Newest \in others => Newest \notin UNION B
                  /\ c \in {"victim", "ticked", "nothing"} /\ mutateDelete(B, c)
  BY <1>2
<1>4. /\ asked' = asked \cup UNION B /\ DeleteTypes' /\ AskedUnderWay'
      /\ \A d \in deletes' : d.no \in 1..sends'
  BY <1>1, <1>3, SentBatches
<1>5. TablesTypeOK'
  BY <1>1, <1>4 DEF TablesTypeOK
<1>6. DialogNamesRows'
  BY <1>1 DEF DialogNamesRows
<1>7. NewRowUnseen'
  BY <1>1, <1>3, <1>4 DEF NewRowUnseen
<1>. QED
  BY <1>4, <1>5, <1>6, <1>7

\* A request that is served deletes its rows, an answer tells nobody else.
LEMMA ServeStep == ASSUME ListInv, NEW d \in deletes, ServerDeletes(d) PROVE ListInv'
<1>. USE DEF ListInv
<1>. DEFINE e == [d EXCEPT !.done = TRUE]
<1>1. /\ ~d.done /\ live' = live \ d.ids /\ deletes' = (deletes \ {d}) \cup {e}
      /\ UNCHANGED <<listing, rows, pageNo, pageSize, ticked, victim, dialog, sends,
                     asked, undone, others>>
  BY DEF ServerDeletes
<1>2. /\ e \in [no : 1..sends, ids : SUBSET asked,
                clears : {"victim", "ticked", "nothing"}, done : BOOLEAN]
      /\ e.no \in 1..sends /\ d.ids \subseteq asked
  BY DEF DeleteTypes
<1>. HIDE DEF e
<1>3. TablesTypeOK'
  BY <1>1, <1>2 DEF TablesTypeOK
<1>4. DialogNamesRows' /\ DeleteTypes' /\ NewRowUnseen'
  BY <1>1, <1>2 DEF DialogNamesRows, DeleteTypes, NewRowUnseen
<1>5. AskedUnderWay'
  <2>1. ASSUME NEW r \in asked \cap live'
        PROVE  r \in undone \/ \E x \in deletes' : ~x.done /\ r \in x.ids
    <3>1. r \in live /\ r \notin d.ids
      BY <1>1, <2>1
    <3>2. r \in undone \/ \E x \in deletes \ {d} : ~x.done /\ r \in x.ids
      BY <2>1, <3>1 DEF AskedUnderWay
    <3>. QED
      BY <1>1, <3>2
  <2>2. RowIds \ live' \subseteq asked \cup others
    BY <1>1, <1>2 DEF AskedUnderWay
  <2>. QED
    BY <1>1, <2>1, <2>2 DEF AskedUnderWay
<1>. QED
  BY <1>3, <1>4, <1>5

LEMMA AnswerSteps ==
    ASSUME ListInv, NEW d \in deletes, deleteOnSuccess(d) \/ DeleteLost(d)
    PROVE  ListInv'
<1>. USE DEF ListInv
<1>1. /\ deletes' = deletes \ {d}
      /\ UNCHANGED <<listing, live, rows, pageNo, pageSize, sends, asked, others>>
      /\ undone \subseteq undone' /\ (d.done \/ d.ids \subseteq undone')
      /\ ticked' \in {ticked, {}} /\ victim' \in {victim, 0}
      /\ dialog' \in {dialog, "none"}
      /\ victim' # victim => dialog' # "single"
      /\ ticked' # ticked => dialog' # "bulk"
  BY DEF deleteOnSuccess, DeleteLost
<1>2. TablesTypeOK'
  BY <1>1 DEF TablesTypeOK
<1>3. DialogNamesRows' /\ DeleteTypes'
  BY <1>1 DEF DialogNamesRows, DeleteTypes
<1>4. NewRowUnseen'
  BY <1>1 DEF NewRowUnseen
<1>5. AskedUnderWay'
  BY <1>1 DEF AskedUnderWay
<1>. QED
  BY <1>2, <1>3, <1>4, <1>5

\* A row is made, or deleted, by someone else.
LEMMA ElsewhereStep ==
    ASSUME ListInv, NEW r \in RowIds, ChangedElsewhere(r) PROVE ListInv'
<1>. USE DEF ListInv
<1>1. UNCHANGED <<listing, rows, pageNo, pageSize, ticked, victim, dialog, deletes, sends,
                  asked, undone>>
  BY DEF ChangedElsewhere
<1>2. \/ r # Newest /\ live' = live \ {r} /\ others' = others \cup {r}
      \/ r = Newest /\ r \in others /\ live' = live \cup {r} /\ others' = others \ {r}
  BY DEF ChangedElsewhere
<1>3. TablesTypeOK' /\ DialogNamesRows' /\ DeleteTypes'
  BY <1>1, <1>2 DEF TablesTypeOK, DialogNamesRows, DeleteTypes
<1>4. NewRowUnseen'
  BY <1>1, <1>2 DEF NewRowUnseen
<1>5. AskedUnderWay'
  BY <1>1, <1>2 DEF AskedUnderWay, NewRowUnseen
<1>. QED
  BY <1>3, <1>4, <1>5

LEMMA TablesStep == ListInv /\ [TablesNext]_listVars => ListInv'
<1>. SUFFICES ASSUME ListInv, [TablesNext]_listVars PROVE ListInv'
  OBVIOUS
<1>1. CASE UNCHANGED listVars
  BY <1>1 DEF ListInv, TablesTypeOK, DialogNamesRows, DeleteTypes, NewRowUnseen,
              AskedUnderWay
<1>2. CASE \E d \in deletes : ServerDeletes(d) \/ deleteOnSuccess(d) \/ DeleteLost(d)
  BY <1>2, ServeStep, AnswerSteps
<1>3. CASE \E r \in RowIds : \/ toggleSelect(r) \/ handleDeleteClick(r)
                             \/ LinkedTransactionsTable(r) \/ ChangedElsewhere(r)
  BY <1>3, TickSteps, ConfirmSteps, ElsewhereStep
<1>. QED
  BY <1>1, <1>2, <1>3, LookSteps, TickSteps, ConfirmSteps DEF TablesNext

\* What a whole number of pages is: the quotient and the remainder.
LEMMA Quotient ==
    ASSUME NEW n \in Nat, NEW s \in Nat \ {0}
    PROVE  n \div s \in Nat /\ s * (n \div s) <= n /\ n < s * (n \div s) + s
  OBVIOUS

\* A row with b rows before it, of n, is on page b \div s + 1 of the pages
\* there are, and on no other.
LEMMA OnePage ==
    ASSUME NEW n \in Nat, NEW s \in Nat \ {0}, NEW b \in Nat, b < n
    PROVE  /\ b \div s + 1 \in 1..((n + s - 1) \div s)
           /\ \A p \in Nat \ {0} : b \in (p - 1) * s .. p * s - 1 <=> p = b \div s + 1
<1>. DEFINE q == b \div s
            t == (n + s - 1) \div s
<1>1. q \in Nat /\ s * q <= b /\ b < s * q + s
  BY Quotient
<1>2. t \in Nat /\ s * t <= n + s - 1 /\ n + s - 1 < s * t + s
  BY Quotient
<1>. HIDE DEF q, t
<1>3. q + 1 <= t
  <2>. SUFFICES ASSUME t <= q PROVE FALSE
    BY <1>1, <1>2
  <2>1. s * t <= s * q
    BY <1>1, <1>2
  <2>. QED
    BY <1>1, <1>2, <2>1
<1>4. ASSUME NEW p \in Nat \ {0} PROVE b \in (p - 1) * s .. p * s - 1 <=> p = q + 1
  <2>1. (p - 1) * s = s * p - s /\ p * s = s * p /\ s * p \in Int
    OBVIOUS
  <2>2. CASE p = q + 1
    <3>1. s * p = s * q + s
      BY <1>1, <2>2
    <3>. QED
      BY <1>1, <2>1, <2>2, <3>1
  <2>3. CASE p <= q
    <3>1. s * p <= s * q
      BY <1>1, <2>3
    <3>. QED
      BY <1>1, <2>1, <2>3, <3>1
  <2>4. CASE q + 2 <= p
    <3>1. s * q + 2 * s <= s * p
      BY <1>1, <2>4
    <3>. QED
      BY <1>1, <2>1, <2>4, <3>1
  <2>. QED
    BY <1>1, <2>2, <2>3, <2>4
<1>. QED
  BY <1>1, <1>2, <1>3, <1>4 DEF q, t

LEMMA TablesAreWhatTheySay == ListInv => TablesSafe
<1>. SUFFICES ASSUME ListInv PROVE TablesSafe
  OBVIOUS
<1>1. EveryRowOnOnePage
  <2>. SUFFICES ASSUME Visible, NEW f \in {"none", "alike"}, NEW s \in PageSizes,
                       NEW r \in filtered(f)
                PROVE  Cardinality({p \in 1..totalPages(f, s) :
                                      r \in filteredRows(f, p, s)}) = 1
    BY DEF EveryRowOnOnePage
  <2>. DEFINE before == {q \in filtered(f) : q < r}
              b == Cardinality(before)
              n == Cardinality(filtered(f))
  <2>1. filtered(f) \subseteq RowIds /\ IsFiniteSet(filtered(f)) /\ s \in Nat \ {0}
    <3>1. filtered(f) \subseteq RowIds
      BY ListedAreRows DEF filtered
    <3>. QED
      BY <3>1, FS_Subset
  <2>2. b \in Nat /\ n \in Nat /\ b < n
    <3>1. before \in SUBSET filtered(f) /\ before # filtered(f)
      <4>1. r \in Nat
        BY <2>1
      <4>2. ~(r < r)
        BY <4>1
      <4>3. r \notin before
        BY <4>2
      <4>. QED
        BY <4>3
    <3>2. b <= n /\ b # n /\ IsFiniteSet(before)
      BY <2>1, <3>1, FS_Subset
    <3>. QED
      BY <2>1, <3>2, FS_CardinalityType
  <2>3. totalPages(f, s) = (n + s - 1) \div s
    BY DEF totalPages
  <2>4. \A p : r \in filteredRows(f, p, s) <=> b \in (p - 1) * s .. p * s - 1
    BY DEF filteredRows
  <2>. HIDE DEF b, n
  <2>5. {p \in 1..totalPages(f, s) : r \in filteredRows(f, p, s)} = {b \div s + 1}
    <3>1. /\ b \div s + 1 \in 1..((n + s - 1) \div s)
          /\ \A p \in Nat \ {0} : b \in (p - 1) * s .. p * s - 1 <=> p = b \div s + 1
      BY <2>1, <2>2, OnePage
    <3>2. \A p \in 1..totalPages(f, s) : p \in Nat \ {0}
      OBVIOUS
    <3>. QED
      BY <2>3, <2>4, <3>1, <3>2
  <2>. QED
    BY <2>5, FS_Singleton
<1>2. AskedAreGone
  BY DEF AskedAreGone, ListInv, AskedUnderWay
<1>. QED
  BY <1>1, <1>2 DEF TablesSafe, ListInv

\* A list shows every row on one page of those it counts, deletes the rows whose
\* deletion was confirmed and no others, and asks about rows only (the tables of
\* transactions, SMS logs and linked transactions).
THEOREM TablesAreSafe == TablesSpec => []TablesSafe
<1>1. TablesSpec => []ListInv
  BY TablesStart, TablesStep, PTL DEF TablesSpec
<1>. QED
  BY <1>1, TablesAreWhatTheySay, PTL

\* No filter and no page size leaves the user past the last page: only a list
\* that shrank does (onFilterChange and onPageSizeChange go to page 1).
THEOREM NeverLeftPastTheEnd == TablesSpec => NeverPastTheEnd
<1>. DEFINE Kept == Visible /\ Visible' /\ pageNo' > totalPages(filter, pageSize)'
                      => pageNo > totalPages(filter, pageSize) \/ rows' # rows
<1>1. ListInv /\ [TablesNext]_listVars => [Kept]_listVars
  <2>. SUFFICES ASSUME ListInv, TablesNext, Visible, rows' = rows,
                       pageNo' > totalPages(filter, pageSize)'
                PROVE  pageNo > totalPages(filter, pageSize)
    OBVIOUS
  <2>1. \A f : \A s \in PageSizes : totalPages(f, s) \in Nat \ {0}
    <3>. SUFFICES ASSUME NEW f, NEW s \in PageSizes
                  PROVE  totalPages(f, s) \in Nat \ {0}
      OBVIOUS
    <3>0. CASE filtered(f) = {}
      BY <3>0 DEF totalPages
    <3>1. CASE filtered(f) # {}
      <4>. DEFINE n == Cardinality(filtered(f))
      <4>1. n \in Nat \ {0}
        <5>1. filtered(f) \subseteq RowIds /\ IsFiniteSet(filtered(f))
          BY ListedAreRows, FS_Subset DEF filtered
        <5>. QED
          BY <3>1, <5>1, FS_CardinalityType, FS_EmptySet
      <4>2. totalPages(f, s) = (n + s - 1) \div s
        BY <3>1 DEF totalPages
      <4>. HIDE DEF n
      <4>3. 0 \div s + 1 \in 1..((n + s - 1) \div s) /\ 0 \div s \in Nat
        BY <4>1, OnePage, Quotient
      <4>. QED
        BY <4>1, <4>2, <4>3, Quotient
    <3>. QED
      BY <3>0, <3>1
  <2>2. PICK f, s : f = filter' /\ s = pageSize'
    OBVIOUS
  <2>3. totalPages(filter, pageSize)' = totalPages(f, s)
    BY <2>2 DEF totalPages, filtered
  <2>4. pageNo \in Nat /\ pageSize \in PageSizes /\ pageNo' \in Nat /\ s \in PageSizes
    BY <2>2, TablesStep DEF ListInv, TablesTypeOK
  <2>5. pageNo' # 1
    BY <2>1, <2>3, <2>4
  <2>6. totalPages(f, s) \in Nat /\ totalPages(filter, pageSize) \in Nat
    BY <2>1, <2>4
  <2>7. CASE \E p \in 1..MaxPage : onPageChange(p)
    <3>1. f = filter /\ s = pageSize
      BY <2>2, <2>7 DEF onPageChange
    <3>2. \/ pageNo' = pageNo - 1
          \/ pageNo' = pageNo + 1 /\ pageNo # totalPages(filter, pageSize)
      BY <2>7 DEF onPageChange
    <3>. HIDE DEF totalPages
    <3>. QED
      BY <2>3, <2>4, <2>6, <3>1, <3>2
  <2>8. CASE UNCHANGED <<filter, pageNo, pageSize>>
    BY <2>2, <2>3, <2>8
  <2>. QED
    BY <2>5, <2>7, <2>8
       DEF TablesNext, onFilterChange, onPageSizeChange, toggleSelect, handleDeleteClick,
           LinkedTransactionsTable, ChangedElsewhere, toggleSelectAll, openBulkDialog,
           handleDeleteCancel, handleDeleteConfirm, handleBulkDelete, ServerDeletes,
           deleteOnSuccess, DeleteLost, FetchRows, FetchRowsFails
<1>2. TablesSpec => []ListInv
  BY TablesStart, TablesStep, PTL DEF TablesSpec
<1>3. TablesSpec => [][Kept]_listVars
  BY <1>1, <1>2, PTL DEF TablesSpec
<1>. QED
  BY <1>3 DEF NeverPastTheEnd

HIDE TablesAssumption DEF TablesAssumption, listVars, fetched, paged, chosen, flying, past

(***************************************************************************)
(* The forms                                                               *)
(***************************************************************************)
Call == [id : Nat, no : Nat, sends : UNION {[S -> Values] : S \in SUBSET Fields},
         touched : SUBSET Fields, picked : SUBSET Days,
         at : {"sent", "refused", "stored"}]

\* A submission is of a form there was, carries what its table demands, and is
\* refused for a date only.
CallTypes ==
    /\ opened \in Nat /\ submits \in Nat /\ upsets \in Nat /\ leaving \in BOOLEAN
    /\ calls \subseteq Call
    /\ \A c \in calls :
          /\ c.no \in 1..opened /\ F.needs \cap Fields \subseteq DOMAIN c.sends
          /\ c.at = "refused" => c.picked \cap F.instants # {}
    /\ \A m \in made : m.no \in 1..opened

\* Of a form that creates, and that no lost answer or early second press
\* excuses: its submissions are one, it is the one that was stored if any was,
\* and once it was, the form is still pending or on its way out.
OneChance ==
    ~F.edits => \A k \in Nat \ excused :
        /\ \A b, c \in calls : b.no = k /\ c.no = k => b = c
        /\ \A m \in made, c \in calls : m.no = k /\ c.no = k => c.at = "stored"
        /\ (\E m \in made : m.no = k) /\ no = k
              => leaving \/ \E c \in calls : c.no = k

\* Of a form that edits: the page's copy, the fields left alone and the values
\* sent of them differ from the record only where it was written meanwhile, or
\* in the goal's date.  What a form started from is kept while ErrorState stands
\* in its place.
StaleIsMoved ==
    F.edits =>
        /\ no # 0 \/ calls # {} => \A f \in Fields : shown[f] # record[f] => f \in moved
        /\ no # 0 \/ error = "form" =>
              \A f \in Fields : base[f] = record[f] \/ f \in moved \cup Drifts
        /\ no # 0 =>
              \A f \in Fields \ touched : values[f] = record[f] \/ f \in moved \cup Drifts
        /\ \A c \in calls : c.at = "sent" => \A f \in DOMAIN c.sends \ c.touched :
              c.sends[f] = record[f] \/ f \in moved \cup Drifts

FormInv == FormsTypeOK /\ CallTypes /\ OneRecordPerForm /\ OneChance /\ StaleIsMoved

\* What the eleven tables have in common: the server demands no more than the
\* schema does, and nothing that is not sent.
LEMMA TablesOfForms ==
    ASSUME form \in FormNames
    PROVE  /\ F.edits \in BOOLEAN
           /\ F.needs \subseteq F.required \ F.fixed
           /\ F.onPage = "differences" => F.needs = {}
           /\ form = "ProfileUpdate" => F.edits
           /\ form \in {"TransactionCreate", "AccountCreate", "LinkTransaction"} => ~F.edits
<1>. USE DEF createTransactionSchema, TransactionCreateForm, TransactionEditForm,
             AccountCreateForm, AccountUpdateForm, transformToUpdateRequest,
             ProfileUpdateForm, SmsCreateForm, ruleSchema, SipFields, RuleCreateForm,
             RuleEditForm, createGoalSchema, GoalCreateForm, updateGoalSchema,
             GoalEditForm, linkSchema, LinkTransactionForm, F, Forms
<1>1. form \in {"TransactionCreate", "TransactionEdit", "AccountCreate", "AccountUpdate",
                "ProfileUpdate", "SmsCreate", "RuleCreate", "RuleEdit", "GoalCreate",
                "GoalEdit", "LinkTransaction"}
  BY NamesAssumption DEF NamesAssumption
<1>2. CASE form = "TransactionCreate"
  BY <1>2
<1>3. CASE form = "TransactionEdit"
  BY <1>3
<1>4. CASE form = "AccountCreate"
  BY <1>4
<1>5. CASE form = "AccountUpdate"
  BY <1>5
<1>6. CASE form = "ProfileUpdate"
  BY <1>6
<1>7. CASE form = "SmsCreate"
  BY <1>7
<1>8. CASE form = "RuleCreate"
  BY <1>8
<1>9. CASE form = "RuleEdit"
  <2>1. F = RuleEditForm
    BY <1>9
  <2>2. RuleEditForm.edits = TRUE /\ RuleEditForm.needs = {}
    OBVIOUS
  <2>3. RuleEditForm.onPage = "keyed"
    OBVIOUS
  <2>. QED
    BY <1>9, <2>1, <2>2, <2>3
<1>10. CASE form = "GoalCreate"
  BY <1>10
<1>11. CASE form = "GoalEdit"
  <2>1. F = GoalEditForm
    BY <1>11
  <2>2. GoalEditForm.edits = TRUE /\ GoalEditForm.needs = {}
    OBVIOUS
  <2>. QED
    BY <1>11, <2>1, <2>2
<1>12. CASE form = "LinkTransaction"
  BY <1>12
<1>. QED
  BY <1>1, <1>2, <1>3, <1>4, <1>5, <1>6, <1>7, <1>8, <1>9, <1>10, <1>11, <1>12

LEMMA SameForm == form' = form /\ west' = west
                   => F' = F /\ Fields' = Fields /\ Drifts' = Drifts
  BY DEF F, Fields, Drifts

LEMMA DefaultsType ==
    ASSUME NEW r \in [Fields -> Values]
    PROVE  /\ Defaults(r) \in [Fields -> Values]
           /\ F.edits => \A f \in Fields : Defaults(r)[f] = r[f] \/ f \in Drifts
<1>1. \A f \in Fields : r[f] \in Values /\ DayBefore(r[f]) \in Values
  BY DEF Values, DayBefore
<1>. QED
  BY <1>1 DEF Defaults, Values, Drifts

USE FormsAssumption DEF FormsAssumption

LEMMA FormsStart == FormsInit => FormInv
<1>. SUFFICES ASSUME FormsInit PROVE FormInv
  OBVIOUS
<1>. USE DEF FormsInit
<1>1. FormsTypeOK
  BY DEF FormsTypeOK, Values
<1>2. CallTypes /\ OneRecordPerForm
  BY DEF CallTypes, OneRecordPerForm
<1>3. OneChance /\ StaleIsMoved
  BY DEF OneChance, StaleIsMoved
<1>. QED
  BY <1>1, <1>2, <1>3 DEF FormInv

\* What can happen to the form on screen by itself: another one is put up, or
\* it starts anew, goes, or has a field set.
LEMMA ScreenSteps ==
    ASSUME FormInv,
           \/ Open \/ onCancel \/ onOpenChange \/ Refetch \/ RefetchFails \/ onRetry
           \/ FirstAccount \/ getTodayDateString \/ Leave
           \/ \E found \in SUBSET {"amount", "transaction_date"} : onParsed(found)
           \/ \E f \in Fields, v \in Choosable : Fill(f, v)
           \/ \E t \in Choosable \ {0} : handleSelect(t)
    PROVE  FormInv'
<1>. USE DEF FormInv
<1>1. /\ UNCHANGED <<form, west, submits, record, made, calls, excused>>
      /\ F' = F /\ Fields' = Fields /\ Drifts' = Drifts
  <2>1. UNCHANGED <<form, west, submits, record, made, calls, excused>>
    BY DEF Open, onCancel, onOpenChange, Refetch, RefetchFails, onRetry, FirstAccount,
           getTodayDateString, Leave, onParsed, Fill, handleSelect
  <2>. QED
    BY <2>1, SameForm
<1>2. /\ no \in 0..opened /\ opened \in Nat /\ form \in FormNames
      /\ record \in [Fields -> Values] /\ shown \in [Fields -> Values]
      /\ values \in [Fields -> Values] /\ base \in [Fields -> Values]
      /\ touched \subseteq Fields /\ moved \subseteq Fields /\ picked \subseteq Days
      /\ no = 0 => touched = {}
      /\ west \in BOOLEAN /\ error \in {"none", "page", "form"}
      /\ error # "none" => no = 0
      /\ Choosable \subseteq Values
  <2>1. Choosable \subseteq Values
    BY DEF Choosable, Values
  <2>. QED
    BY <2>1 DEF FormsTypeOK, CallTypes
<1>3. /\ FormsTypeOK' /\ StaleIsMoved'
      /\ opened' \in Nat /\ opened <= opened'
      /\ no' \in {no, 0} \/ no' = opened + 1
      /\ leaving' = leaving \/ no' = 0
  <2>1. CASE onCancel \/ onOpenChange \/ Leave \/ RefetchFails
    <3>1. /\ no' = 0 /\ touched' = {} /\ picked' = {}
          /\ UNCHANGED <<opened, values, base, shown, moved>>
          /\ error' = error \/ error' = IF no = 0 THEN "page" ELSE "form"
      BY <2>1 DEF onCancel, onOpenChange, Leave, RefetchFails, Unmount
    <3>2. FormsTypeOK'
      BY <1>1, <1>2, <3>1 DEF FormsTypeOK
    <3>3. StaleIsMoved'
      BY <1>1, <3>1 DEF StaleIsMoved
    <3>. QED
      BY <1>2, <3>1, <3>2, <3>3
  <2>2. CASE Open
    <3>1. /\ no = 0 /\ opened' = opened + 1 /\ no' = opened'
          /\ values' = Defaults(shown) /\ base' = Defaults(shown)
          /\ touched' = {} /\ picked' = {} /\ UNCHANGED <<shown, leaving>>
          /\ error = "none" /\ error' = "none"
          /\ moved' = IF calls = {} THEN {f \in Fields : shown[f] # record[f]} ELSE moved
      BY <2>2 DEF Open, Mount
    <3>2. PICK d : d = Defaults(shown)
      OBVIOUS
    <3>3. d \in [Fields -> Values] /\ (F.edits => \A f \in Fields : d[f] = shown[f] \/ f \in Drifts)
      BY <1>2, <3>2, DefaultsType
    <3>4. FormsTypeOK'
      BY <1>1, <1>2, <3>1, <3>2, <3>3 DEF FormsTypeOK
    <3>5. StaleIsMoved'
      <4>1. CASE calls = {}
        BY <1>1, <3>1, <3>2, <3>3, <4>1 DEF StaleIsMoved
      <4>2. CASE calls # {}
        BY <1>1, <3>1, <3>2, <3>3, <4>2 DEF StaleIsMoved
      <4>. QED
        BY <4>1, <4>2
    <3>. QED
      BY <1>2, <3>1, <3>4, <3>5
  <2>3. CASE Refetch \/ onRetry
    <3>1. PICK d : d = Defaults(record)
      OBVIOUS
    <3>2. d \in [Fields -> Values] /\ (F.edits => \A f \in Fields : d[f] = record[f] \/ f \in Drifts)
      BY <1>2, <3>1, DefaultsType
    <3>3. /\ shown' = record /\ error' = "none" /\ UNCHANGED <<moved, leaving>>
          /\ \/ UNCHANGED screenVars /\ (error = "none" \/ no = 0)
             \/ /\ values' = d /\ base' = d /\ touched' = {} /\ picked' = {}
                /\ \/ no # 0 /\ no' = no /\ opened' = opened
                   \/ no' = opened + 1 /\ opened' = opened + 1
             \/ /\ error = "form" /\ values' = base /\ base' = base
                /\ touched' = {} /\ picked' = {}
                /\ no' = opened + 1 /\ opened' = opened + 1
      <4>1. CASE Refetch
        BY <3>1, <4>1 DEF Refetch, Mount, Restart
      <4>2. CASE onRetry
        BY <1>2, <3>1, <4>2 DEF onRetry, Mount
      <4>. QED
        BY <2>3, <4>1, <4>2
    <3>4. FormsTypeOK'
      BY <1>1, <1>2, <3>2, <3>3 DEF FormsTypeOK, screenVars
    <3>5. StaleIsMoved'
      BY <1>1, <3>2, <3>3 DEF StaleIsMoved, screenVars
    <3>. QED
      BY <1>2, <3>3, <3>4, <3>5 DEF screenVars
  <2>4. CASE \/ getTodayDateString \/ FirstAccount
             \/ \E found \in SUBSET {"amount", "transaction_date"} : onParsed(found)
    <3>1. /\ values' \in [Fields -> Values] /\ base' \in [Fields -> Values]
          /\ touched' = {} /\ picked' = {}
          /\ \/ UNCHANGED <<no, opened>>
             \/ no' = opened + 1 /\ opened' = opened + 1
          /\ no # 0 /\ UNCHANGED <<shown, moved, leaving, error>>
          /\ form \in {"TransactionCreate", "AccountCreate"}
      <4>1. CASE getTodayDateString
        BY <1>2, <4>1 DEF getTodayDateString, Restart
      <4>2. CASE \E found \in SUBSET {"amount", "transaction_date"} : onParsed(found)
        <5>1. Defaults(shown) \in [Fields -> Values] /\ 2 \in Values
          BY <1>2, DefaultsType DEF Values
        <5>. QED
          BY <4>2, <5>1 DEF onParsed, Restart
      <4>3. CASE FirstAccount
        BY <1>2, <4>3, DefaultsType DEF FirstAccount, Mount
      <4>. QED
        BY <2>4, <4>1, <4>2, <4>3
    <3>2. FormsTypeOK'
      BY <1>1, <1>2, <3>1 DEF FormsTypeOK
    <3>3. ~F'.edits
      BY <1>1, <1>2, <3>1, TablesOfForms
    <3>. QED
      BY <1>2, <3>1, <3>2, <3>3 DEF StaleIsMoved
  <2>5. CASE \E f \in Fields, v \in Choosable : Fill(f, v)
    <3>1. PICK f \in Fields, v \in Choosable : Fill(f, v)
      BY <2>5
    <3>2. /\ no # 0 /\ values' = [values EXCEPT ![f] = v] /\ touched' = touched \cup {f}
          /\ picked' \subseteq Days
          /\ UNCHANGED <<no, opened, base, shown, moved, leaving, error>>
      BY <1>2, <3>1 DEF Fill, FormDatePicker, FormInput
    <3>3. /\ values' \in [Fields -> Values]
          /\ \A g \in Fields : g # f => values'[g] = values[g]
      BY <1>2, <3>2
    <3>4. FormsTypeOK'
      BY <1>1, <1>2, <3>2, <3>3 DEF FormsTypeOK
    <3>5. StaleIsMoved'
      BY <1>1, <3>2, <3>3 DEF StaleIsMoved
    <3>. QED
      BY <1>2, <3>2, <3>4, <3>5
  <2>6. CASE \E t \in Choosable \ {0} : handleSelect(t)
    <3>1. /\ form = "LinkTransaction" /\ no # 0 /\ values' \in [Fields -> Values]
          /\ touched' \subseteq Fields /\ picked' \subseteq Days
          /\ UNCHANGED <<no, opened, base, shown, moved, leaving, error>>
      BY <1>2, <2>6 DEF handleSelect
    <3>2. FormsTypeOK'
      BY <1>1, <1>2, <3>1 DEF FormsTypeOK
    <3>3. ~F'.edits
      BY <1>1, <1>2, <3>1, TablesOfForms
    <3>. QED
      BY <1>2, <3>1, <3>2, <3>3 DEF StaleIsMoved
  <2>. QED
    BY <2>1, <2>2, <2>3, <2>4, <2>5, <2>6
<1>4. Call' = Call
  BY <1>1 DEF Call
<1>5. CallTypes'
  <2>1. leaving \in BOOLEAN /\ upsets \in Nat
    BY DEF CallTypes
  <2>2. leaving' \in BOOLEAN
    BY <2>1 DEF Open, onCancel, onOpenChange, Refetch, RefetchFails, onRetry,
                FirstAccount, getTodayDateString, Leave, onParsed, Fill, handleSelect
  <2>3. upsets' \in {upsets, upsets + 1}
    BY DEF Open, onCancel, onOpenChange, Refetch, RefetchFails, onRetry, FirstAccount,
           getTodayDateString, Leave, onParsed, Fill, handleSelect, Upset
  <2>. QED
    BY <1>1, <1>2, <1>3, <1>4, <2>1, <2>2, <2>3 DEF CallTypes
<1>6. OneRecordPerForm'
  BY <1>1 DEF OneRecordPerForm
<1>7. OneChance'
  <2>. SUFFICES ASSUME ~F.edits, NEW k \in Nat \ excused
                PROVE  (\E m \in made : m.no = k) /\ no' = k
                          => leaving' \/ \E c \in calls : c.no = k
    BY <1>1 DEF OneChance
  <2>1. ASSUME NEW m \in made, m.no = k, no' = k PROVE no' = no /\ leaving' = leaving
    BY <1>2, <1>3, <2>1 DEF CallTypes
  <2>. QED
    BY <2>1 DEF OneChance
<1>. QED
  BY <1>3, <1>5, <1>6, <1>7

\* A submission is of the form on screen as the user left it.
LEMMA SubmitStep == ASSUME FormInv, Submit PROVE FormInv'
<1>. USE DEF FormInv
<1>. DEFINE new == [id |-> submits, no |-> no, sends |-> Payload, touched |-> touched,
                    picked |-> picked, at |-> "sent"]
<1>1. /\ UNCHANGED <<form, west, error, record, shown, made, leaving, upsets, moved>>
      /\ F' = F /\ Fields' = Fields /\ Drifts' = Drifts
  BY SameForm DEF Submit
<1>2. /\ no \in 0..opened /\ opened \in Nat /\ form \in FormNames
      /\ values \in [Fields -> Values] /\ touched \subseteq Fields /\ picked \subseteq Days
      /\ no # 0 /\ submits \in Nat
  BY DEF FormsTypeOK, CallTypes, Submit
<1>3. \/ Unmount /\ UNCHANGED <<calls, submits, excused>>
      \/ /\ submits' = submits + 1 /\ calls' = calls \cup {new} /\ UNCHANGED screenVars
         /\ excused' = IF leaving THEN excused \cup {no} ELSE excused
  BY DEF Submit
<1>4. CASE Unmount /\ UNCHANGED <<calls, submits, excused>>
  <2>1. /\ no' = 0 /\ touched' = {} /\ picked' = {} /\ Call' = Call
        /\ UNCHANGED <<opened, values, base, calls, submits, excused>>
    BY <1>1, <1>4 DEF Unmount, Call
  <2>2. FormsTypeOK' /\ CallTypes'
    BY <1>1, <1>2, <2>1 DEF FormsTypeOK, CallTypes
  <2>3. OneRecordPerForm' /\ OneChance'
    <3>1. \A m \in made : m.no # 0
      BY DEF CallTypes
    <3>. QED
      BY <1>1, <2>1, <3>1 DEF OneRecordPerForm, OneChance
  <2>4. StaleIsMoved'
    BY <1>1, <1>2, <2>1 DEF StaleIsMoved
  <2>. QED
    BY <2>2, <2>3, <2>4
<1>5. CASE /\ submits' = submits + 1 /\ calls' = calls \cup {new} /\ UNCHANGED screenVars
           /\ excused' = IF leaving THEN excused \cup {no} ELSE excused
  <2>1. /\ DOMAIN Payload \subseteq Fields /\ Payload \in [DOMAIN Payload -> Values]
        /\ F.needs \cap Fields \subseteq DOMAIN Payload
        /\ \A f \in DOMAIN Payload : Payload[f] = values[f]
    <3>1. \A f \in F.required \cap Fields : values[f] # 0
      BY DEF Submit
    <3>2. /\ F.needs \subseteq F.required \ F.fixed
          /\ F.onPage = "differences" => F.needs = {}
      BY <1>2, TablesOfForms
    <3>3. F.needs \cap Fields \subseteq DOMAIN Payload
      BY <3>1, <3>2 DEF Payload
    <3>. QED
      BY <1>2, <3>3 DEF Payload
  <2>2. /\ new \in Call /\ new.no = no /\ new.at = "sent" /\ new.sends = Payload
        /\ new.touched = touched
    BY <1>2, <2>1 DEF Call
  <2>. HIDE DEF new
  <2>3. Call' = Call /\ UNCHANGED <<no, opened, values, base, touched, picked>>
    BY <1>1, <1>5 DEF Call, screenVars
  <2>4. FormsTypeOK'
    BY <1>1, <1>5, <2>3 DEF FormsTypeOK
  <2>5. CallTypes'
    BY <1>1, <1>2, <1>5, <2>1, <2>2, <2>3 DEF CallTypes
  <2>6. OneRecordPerForm'
    BY <1>1, <1>5 DEF OneRecordPerForm
  <2>7. OneChance'
    <3>. SUFFICES ASSUME ~F.edits, NEW k \in Nat \ excused'
                  PROVE  /\ \A b, c \in calls' : b.no = k /\ c.no = k => b = c
                         /\ \A m \in made, c \in calls' : m.no = k /\ c.no = k => c.at = "stored"
                         /\ (\E m \in made : m.no = k) /\ no = k
                               => leaving \/ \E c \in calls' : c.no = k
      BY <1>1, <2>3 DEF OneChance
    <3>1. k \in Nat \ excused
      BY <1>5
    <3>2. CASE no # k
      BY <1>5, <2>2, <3>1, <3>2 DEF OneChance
    <3>3. CASE no = k
      <4>1. ~leaving /\ \A c \in calls : c.no # k
        <5>1. form # "ProfileUpdate"
          BY <1>2, TablesOfForms
        <5>2. \A c \in calls : c.no # no
          BY <5>1 DEF Submit, isPending
        <5>. QED
          BY <1>5, <3>3, <5>2
      <4>2. \A m \in made : m.no # k
        BY <3>1, <3>3, <4>1 DEF OneChance
      <4>. QED
        BY <1>5, <2>2, <3>3, <4>1, <4>2
    <3>. QED
      BY <3>2, <3>3
  <2>8. StaleIsMoved'
    BY <1>1, <1>2, <1>5, <2>1, <2>2, <2>3 DEF StaleIsMoved
  <2>. QED
    BY <2>4, <2>5, <2>6, <2>7, <2>8
<1>. QED
  BY <1>3, <1>4, <1>5

\* The server refuses a submission or takes it.
LEMMA ServerSteps ==
    ASSUME FormInv, NEW c \in calls, Refuse(c) \/ Store(c)
    PROVE  FormInv'
<1>. USE DEF FormInv
<1>. DEFINE e == [c EXCEPT !.at = IF Refuse(c) THEN "refused" ELSE "stored"]
            mine == [id |-> Cardinality(made) + 1, no |-> c.no]
<1>. HIDE DEF e, mine
<1>1. /\ UNCHANGED <<form, west, error, submits, shown, no, opened, values, base, touched,
                     picked, leaving, upsets, excused>>
      /\ F' = F /\ Fields' = Fields /\ Call' = Call /\ Drifts' = Drifts
  <2>1. UNCHANGED <<form, west, error, submits, shown, screenVars, leaving, upsets, excused>>
    BY DEF Refuse, Store
  <2>. QED
    BY <2>1, SameForm DEF screenVars, Call
<1>2. c.at = "sent" /\ c \in Call
  BY DEF Refuse, Store, CallTypes
<1>3. PICK s \in {"refused", "stored"} :
         /\ calls' = (calls \ {c}) \cup {[c EXCEPT !.at = s]}
         /\ s = "refused" => BindFails(c) /\ UNCHANGED <<record, made, moved>>
         /\ s = "stored" => Store(c)
  BY DEF Refuse, Store, Move
<1>4. PICK d : d = [c EXCEPT !.at = s]
  OBVIOUS
<1>5. /\ d \in Call /\ d.at = s /\ d.no = c.no /\ d.sends = c.sends
      /\ d.touched = c.touched /\ d.picked = c.picked
  BY <1>2, <1>4 DEF Call
<1>6. calls' = (calls \ {c}) \cup {d}
  BY <1>3, <1>4
<1>7. /\ record' \in [Fields -> Values] /\ moved \subseteq moved' /\ moved' \subseteq Fields
      /\ F.edits => \A f \in Fields : record'[f] # record[f] => f \in moved'
      /\ UNCHANGED made \/ (s = "stored" /\ ~F.edits /\ \E m : m.no = c.no /\ made' = made \cup {m})
  <2>1. record \in [Fields -> Values] /\ moved \subseteq Fields
    BY DEF FormsTypeOK
  <2>2. CASE s = "refused"
    BY <1>3, <2>1, <2>2
  <2>3. CASE s = "stored" /\ F.edits
    <3>1. /\ record' = [f \in Fields |-> IF f \in DOMAIN c.sends THEN c.sends[f] ELSE record[f]]
          /\ moved' = moved \cup {f \in Fields : record'[f] # record[f]}
          /\ UNCHANGED made
      BY <1>3, <2>3 DEF Store
    <3>2. \A f \in DOMAIN c.sends : c.sends[f] \in Values
      BY <1>2 DEF Call
    <3>. QED
      BY <2>1, <3>1, <3>2
  <2>4. CASE s = "stored" /\ ~F.edits
    <3>1. UNCHANGED <<record, moved>> /\ made' = made \cup {mine}
      BY <1>3, <2>4 DEF Store, mine
    <3>2. mine.no = c.no
      BY DEF mine
    <3>. QED
      BY <2>1, <2>4, <3>1, <3>2
  <2>. QED
    BY <2>2, <2>3, <2>4
<1>8. FormsTypeOK'
  BY <1>1, <1>7 DEF FormsTypeOK
<1>9. CallTypes'
  <2>1. F.needs \cap Fields \subseteq DOMAIN c.sends /\ c.no \in 1..opened
    BY DEF CallTypes
  <2>2. s = "refused" => c.picked \cap F.instants # {}
    BY <1>3, <2>1 DEF BindFails
  <2>. QED
    BY <1>1, <1>5, <1>6, <1>7, <2>1, <2>2 DEF CallTypes
<1>10. OneRecordPerForm'
  <2>1. ASSUME NEW m \in made, ~F.edits, s = "stored" PROVE m.no = c.no => c.no \in excused
    <3>1. c.no \in Nat /\ c.at # "stored"
      BY <1>2 DEF Call
    <3>. QED
      BY <2>1, <3>1 DEF OneChance
  <2>. QED
    BY <1>1, <1>7, <2>1 DEF OneRecordPerForm
<1>11. OneChance'
  <2>. SUFFICES ASSUME ~F.edits, NEW k \in Nat \ excused
                PROVE  /\ \A a, b \in calls' : a.no = k /\ b.no = k => a = b
                       /\ \A m \in made', b \in calls' : m.no = k /\ b.no = k => b.at = "stored"
                       /\ (\E m \in made' : m.no = k) /\ no = k
                             => leaving \/ \E b \in calls' : b.no = k
    BY <1>1 DEF OneChance
  <2>1. CASE c.no # k
    BY <1>5, <1>6, <1>7, <2>1 DEF OneChance
  <2>2. CASE c.no = k
    <3>1. calls' \ {d} = calls \ {c} /\ \A b \in calls \ {c} : b.no # k
      BY <1>5, <1>6, <1>2, <1>3, <2>2 DEF OneChance
    <3>2. \A m \in made : m.no # k
      BY <1>2, <2>2 DEF OneChance
    <3>. QED
      BY <1>5, <1>6, <1>7, <2>2, <3>1, <3>2
  <2>. QED
    BY <2>1, <2>2
<1>12. StaleIsMoved'
  <2>. SUFFICES ASSUME F.edits PROVE StaleIsMoved'
    BY <1>1 DEF StaleIsMoved
  <2>1. \A f \in Fields : shown[f] # record'[f] => f \in moved'
    BY <1>7 DEF StaleIsMoved
  <2>2. /\ no # 0 => \A f \in Fields \ touched :
                        values[f] = record'[f] \/ f \in moved' \cup Drifts
        /\ no # 0 \/ error = "form" =>
              \A f \in Fields : base[f] = record'[f] \/ f \in moved' \cup Drifts
    BY <1>7 DEF StaleIsMoved
  <2>3. \A b \in calls' : b.at = "sent" => b \in calls
    BY <1>3, <1>5, <1>6
  <2>4. ASSUME NEW b \in calls, b.at = "sent", NEW f \in DOMAIN b.sends \ b.touched
        PROVE  b.sends[f] = record'[f] \/ f \in moved' \cup Drifts
    <3>1. f \in Fields
      BY DEF CallTypes, Call
    <3>. QED
      BY <1>7, <2>4, <3>1 DEF StaleIsMoved
  <2>. QED
    BY <1>1, <2>1, <2>2, <2>3, <2>4 DEF StaleIsMoved
<1>. QED
  BY <1>8, <1>9, <1>10, <1>11, <1>12

\* An answer closes the form, leaves it as it was, or never comes.
LEMMA AnswersOfForms ==
    ASSUME FormInv, NEW c \in calls, onSuccess(c) \/ Refused(c) \/ Missed(c)
    PROVE  FormInv'
<1>. USE DEF FormInv
<1>1. /\ UNCHANGED <<form, west, submits, record, shown, made, opened, values, base, moved>>
      /\ calls' = calls \ {c} /\ F' = F /\ Fields' = Fields /\ Call' = Call
      /\ Drifts' = Drifts
  <2>1. /\ UNCHANGED <<form, west, submits, record, shown, made, opened, values, base, moved>>
        /\ calls' = calls \ {c}
    BY DEF onSuccess, Refused, Missed, screenVars, Unmount
  <2>. QED
    BY <2>1, SameForm DEF Call
<1>2. \/ no' = 0 /\ touched' = {} /\ picked' = {}
      \/ UNCHANGED <<no, touched, picked>>
  BY DEF onSuccess, Refused, Missed, screenVars, Unmount
<1>3. error' = error \/ (error = "form" /\ error' = "page")
  <2>1. CASE onSuccess(c)
    BY <2>1 DEF onSuccess
  <2>2. CASE Refused(c)
    BY <2>2 DEF Refused
  <2>3. CASE Missed(c)
    BY <2>3 DEF Missed
  <2>. QED
    BY <2>1, <2>2, <2>3
<1>4. /\ excused \subseteq excused' /\ leaving' \in BOOLEAN /\ upsets' = upsets
      /\ no' # 0 => leaving' = leaving \/ leaving'
      /\ no' # 0 /\ c.at = "stored" => leaving' \/ c.no \in excused'
  <2>1. leaving \in BOOLEAN
    BY DEF CallTypes
  <2>2. CASE onSuccess(c)
    BY <2>1, <2>2 DEF onSuccess, screenVars, Unmount
  <2>3. CASE Refused(c)
    BY <2>1, <2>3 DEF Refused, screenVars
  <2>4. CASE Missed(c)
    BY <2>1, <2>4 DEF Missed, screenVars
  <2>. QED
    BY <2>2, <2>3, <2>4
<1>5. FormsTypeOK'
  <2>1. no' = 0 => touched' = {}
    BY <1>2 DEF FormsTypeOK
  <2>2. error' \in {"none", "page", "form"} /\ (error' # "none" => no' = 0)
    BY <1>2, <1>3 DEF FormsTypeOK
  <2>. QED
    BY <1>1, <1>2, <2>1, <2>2 DEF FormsTypeOK, CallTypes
<1>6. CallTypes'
  BY <1>1, <1>4 DEF CallTypes
<1>7. OneRecordPerForm'
  BY <1>1, <1>4 DEF OneRecordPerForm
<1>8. OneChance'
  <2>. SUFFICES ASSUME ~F.edits, NEW k \in Nat \ excused'
                PROVE  /\ \A a, b \in calls' : a.no = k /\ b.no = k => a = b
                       /\ \A m \in made, b \in calls' : m.no = k /\ b.no = k => b.at = "stored"
                       /\ (\E m \in made : m.no = k) /\ no' = k
                             => leaving' \/ \E b \in calls' : b.no = k
    BY <1>1 DEF OneChance
  <2>1. k \in Nat \ excused
    BY <1>4
  <2>2. ASSUME NEW m \in made, m.no = k, no' = k, ~leaving'
        PROVE  \E b \in calls' : b.no = k
    <3>1. k # 0 /\ no' = no
      BY <1>2, <2>2 DEF CallTypes
    <3>2. ~leaving
      BY <1>4, <2>2, <3>1
    <3>3. PICK b \in calls : b.no = k
      BY <2>1, <2>2, <3>1, <3>2 DEF OneChance
    <3>4. b.at = "stored"
      BY <2>1, <2>2, <3>3 DEF OneChance
    <3>5. b # c
      BY <1>4, <2>2, <3>1, <3>3, <3>4
    <3>. QED
      BY <1>1, <3>3, <3>5
  <2>3. /\ \A a, b \in calls' : a.no = k /\ b.no = k => a = b
        /\ \A m \in made, b \in calls' : m.no = k /\ b.no = k => b.at = "stored"
    BY <1>1, <2>1 DEF OneChance
  <2>. QED
    BY <2>2, <2>3
<1>9. StaleIsMoved'
  <2>1. no' # 0 => no # 0
    BY <1>2
  <2>. QED
    BY <1>1, <1>2, <1>3, <2>1 DEF StaleIsMoved
<1>. QED
  BY <1>5, <1>6, <1>7, <1>8, <1>9

\* Somebody else writes the record.
LEMMA OthersStep == ASSUME FormInv, NEW f \in Fields, OtherWrites(f) PROVE FormInv'
<1>. USE DEF FormInv
<1>1. /\ UNCHANGED <<form, west, error, submits, shown, made, no, opened, values, base,
                     touched, picked, calls, leaving, excused>>
      /\ record' = [record EXCEPT ![f] = 2] /\ moved' = moved \cup {f}
      /\ upsets' = upsets + 1
  BY DEF OtherWrites, Upset, screenVars
<1>2. F' = F /\ Fields' = Fields /\ Call' = Call /\ Drifts' = Drifts
  BY <1>1, SameForm DEF Call
<1>3. record' \in [Fields -> Values] /\ \A g \in Fields : g # f => record'[g] = record[g]
  BY <1>1 DEF FormsTypeOK, Values
<1>4. FormsTypeOK'
  BY <1>1, <1>2, <1>3 DEF FormsTypeOK
<1>5. CallTypes' /\ OneRecordPerForm' /\ OneChance'
  BY <1>1, <1>2 DEF CallTypes, OneRecordPerForm, OneChance
<1>6. StaleIsMoved'
  <2>1. \A c \in calls : DOMAIN c.sends \subseteq Fields
    BY DEF CallTypes, Call
  <2>. QED
    BY <1>1, <1>2, <1>3, <2>1 DEF StaleIsMoved
<1>. QED
  BY <1>4, <1>5, <1>6

LEMMA FormsStep == FormInv /\ [FormsNext]_formVars => FormInv'
<1>. SUFFICES ASSUME FormInv, [FormsNext]_formVars PROVE FormInv'
  OBVIOUS
<1>1. CASE UNCHANGED formVars
  <2>1. UNCHANGED <<form, west, error, record, shown, made, no, opened, values, base,
                    touched, picked, calls, submits, leaving, upsets, moved, excused>>
    BY <1>1 DEF formVars
  <2>2. F' = F /\ Fields' = Fields /\ Call' = Call /\ Drifts' = Drifts
    BY <2>1, SameForm DEF Call
  <2>. QED
    BY <2>1, <2>2 DEF FormInv, FormsTypeOK, CallTypes, OneRecordPerForm, OneChance,
                      StaleIsMoved
<1>2. CASE \E c \in calls : \/ Refuse(c) \/ Store(c) \/ onSuccess(c)
                            \/ Refused(c) \/ Missed(c)
  BY <1>2, ServerSteps, AnswersOfForms
<1>3. CASE \E f \in Fields : OtherWrites(f) \/ \E v \in Choosable : Fill(f, v)
  BY <1>3, OthersStep, ScreenSteps
<1>4. CASE \/ Open \/ onCancel \/ onOpenChange \/ Refetch \/ RefetchFails \/ onRetry
           \/ FirstAccount \/ getTodayDateString \/ Leave
           \/ \E found \in SUBSET {"amount", "transaction_date"} : onParsed(found)
           \/ \E t \in Choosable \ {0} : handleSelect(t)
  BY <1>4, ScreenSteps, Zenon
<1>. QED
  BY <1>1, <1>2, <1>3, <1>4, SubmitStep, Zenon DEF FormsNext

\* A form creates one record, however often its button is pressed, and what it
\* lets through the server refuses for a calendar date only - for all eleven
\* forms, whichever fields are followed (the *Form.tsx components).
THEOREM FormsAreSafe == FormsSpec => []FormsSafe
<1>1. FormInv => FormsSafe
  BY DEF FormInv, CallTypes, FormsSafe, RefusedForDatesOnly
<1>2. FormsSpec => []FormInv
  BY FormsStart, FormsStep, PTL DEF FormsSpec
<1>. QED
  BY <1>1, <1>2, PTL

\* A save writes what the user set and, of the rest, only what was written while
\* the form was open and, west of UTC, the goal's date, which the form has as the
\* day before (the defaults of a form that edits are otherwise the record's).
THEOREM SavesChangeOnlyTouched == FormsSpec => OnlyTouchedChanges
<1>. DEFINE Kept == \A c \in calls : Store(c) => \A f \in Fields :
                       record'[f] # record[f] => f \in c.touched \cup moved \cup Drifts
<1>1. FormInv => Kept
  <2>. SUFFICES ASSUME FormInv, NEW c \in calls, Store(c), NEW f \in Fields,
                       record'[f] # record[f]
                PROVE  f \in c.touched \cup moved \cup Drifts
    OBVIOUS
  <2>1. c.at = "sent" /\ F.edits
    BY DEF Store
  <2>2. f \in DOMAIN c.sends /\ record'[f] = c.sends[f]
    BY <2>1 DEF Store
  <2>. QED
    BY <2>1, <2>2 DEF FormInv, StaleIsMoved
<1>2. FormsSpec => []FormInv
  BY FormsStart, FormsStep, PTL DEF FormsSpec
<1>3. FormInv /\ [FormsNext]_formVars => [Kept]_formVars
  BY <1>1
<1>4. FormsSpec => [][Kept]_formVars
  BY <1>2, <1>3, PTL DEF FormsSpec
<1>. QED
  BY <1>4 DEF OnlyTouchedChanges

\* What the user has filled in goes by the user, an answer, a parsed receipt,
\* midnight, the first account, a refetch that starts the form anew or one that
\* fails: not by a refusal, a lost call, a write by others or an edit of another
\* field.
THEOREM TypedFieldsAreKept == FormsSpec => TypedIsKept
<1>. DEFINE Kept == ~(touched \subseteq touched')
                      => \/ onCancel \/ onOpenChange \/ Submit \/ Leave
                         \/ \E c \in calls : onSuccess(c)
                         \/ ~F.edits /\ upsets' # upsets
                         \/ Refetch /\ F.onPage \in {"keyed", "skeleton"}
                         \/ error' = "form"
<1>1. FormInv /\ [FormsNext]_formVars => [Kept]_formVars
  <2>. SUFFICES ASSUME FormInv, FormsNext, ~(touched \subseteq touched'),
                       ~(onCancel \/ onOpenChange \/ Submit \/ Leave),
                       ~\E c \in calls : onSuccess(c)
                PROVE  \/ ~F.edits /\ upsets' # upsets
                       \/ Refetch /\ F.onPage \in {"keyed", "skeleton"}
                       \/ error' = "form"
    OBVIOUS
  <2>0. /\ upsets \in Nat /\ form \in FormNames
        /\ no # 0 /\ error = "none"
    BY DEF FormInv, FormsTypeOK, CallTypes
  <2>1. CASE Open \/ onRetry
    BY <2>0, <2>1 DEF Open, onRetry
  <2>2. CASE RefetchFails
    BY <2>0, <2>2 DEF RefetchFails
  <2>3. CASE Refetch
    BY <2>3 DEF Refetch, screenVars
  <2>4. CASE \/ getTodayDateString \/ FirstAccount
             \/ \E found \in SUBSET {"amount", "transaction_date"} : onParsed(found)
    <3>1. upsets' = upsets + 1 /\ form \in {"TransactionCreate", "AccountCreate"}
      BY <2>4 DEF getTodayDateString, FirstAccount, onParsed, Upset
    <3>. QED
      BY <2>0, <3>1, TablesOfForms
  <2>5. CASE \E f \in Fields, v \in Choosable : Fill(f, v)
    BY <2>5 DEF Fill
  <2>6. CASE \E t \in Choosable \ {0} : handleSelect(t)
    BY <2>6 DEF handleSelect
  <2>7. CASE \E f \in Fields : OtherWrites(f)
    BY <2>7 DEF OtherWrites, screenVars
  <2>8. CASE \E c \in calls : Refuse(c) \/ Store(c) \/ Refused(c) \/ Missed(c)
    BY <2>8 DEF Refuse, Store, Refused, Missed, screenVars
  <2>. QED
    BY <2>1, <2>2, <2>3, <2>4, <2>5, <2>6, <2>7, <2>8, Zenon DEF FormsNext
<1>2. FormsSpec => []FormInv
  BY FormsStart, FormsStep, PTL DEF FormsSpec
<1>3. FormsSpec => [][Kept]_formVars
  BY <1>1, <1>2, PTL DEF FormsSpec
<1>. QED
  BY <1>3 DEF TypedIsKept

HIDE FormsAssumption DEF FormsAssumption

(***************************************************************************)
(* The pages of accounts, goals, rules and one upload                      *)
(***************************************************************************)
Chips == {"all", "sip"}
KindOK == kind \in Lists \cup Details

PageTypes ==
    /\ KindOK /\ place \in {"here", "list", "elsewhere"} /\ chip \in Chips
    /\ kind \notin {"rules", "upload"} => chip = "all"
    /\ kind = "upload" => ~wanted
    /\ entities \subseteq Entities /\ ours \subseteq entities
    /\ kind \in Details => ours = {}
    /\ formsShown \in Nat /\ did \in Nat /\ strangers \in Nat /\ slips \in Nat
    /\ saving \subseteq [makes : Entities, saved : BOOLEAN]
    /\ \A s, t \in saving : s = t
    /\ removals \subseteq [no : 1..did, removed : BOOLEAN]
    /\ removals # {} => kind \in Details

CacheTypes ==
    /\ cache \in [Chips -> [rows : {Unread} \cup SUBSET Entities, error : BOOLEAN,
                            stale : BOOLEAN]]
    /\ fetching \subseteq Chips
    /\ \A k \in Chips : cache[k].rows = Unread => cache[k].stale
    /\ kind \in Lists => \A k \in Chips :
          cache[k].rows = Unread \/ cache[k].rows \subseteq Passing(k)

FormOnScreen == (shownForm # 0 <=> FormPlace # "none") /\ (typed => shownForm # 0)

\* What is looked at is up to date, or being fetched, or its fetch has failed.
StaleIsFetched ==
    known /\ place = "here" /\ Read.stale => isFetching \/ Read.error

\* A list that is up to date holds what was made here, but for an entity whose
\* form is about to be answered, which marks every list.
OursAreRead ==
    kind \in Lists => \A k \in Chips : ~cache[k].stale =>
        \A e \in ours \cap Passing(k) :
            e \in cache[k].rows \/ \E s \in saving : s.saved /\ s.makes = e

Waiting == waitsFor # 0 => \E r \in removals : r.no = waitsFor

\* Unless a fetch rebuilt the page under its delete, one is on its way, and the
\* button of the page waits for it.
OneDelete ==
    kind \notin Asks \/ ~redrawn =>
        /\ \A q, r \in removals : q = r
        /\ place = "here" => \A r \in removals : r.no = waitsFor

\* An entity that is gone, and that nobody else and no failure took away, was
\* never there.
NeverThere ==
    kind \in Details /\ place = "here" /\ removals = {} /\ Mine \notin entities
        /\ strangers = 0 /\ slips = 0
      => did = 0 /\ \A k \in Chips : cache[k].rows = Unread

EntityInv == /\ PageTypes /\ CacheTypes /\ FormOnScreen /\ StaleIsFetched /\ OursAreRead
             /\ Waiting /\ OneDelete /\ NeverThere

\* What the seven pages have in common.
ViewFacts ==
    /\ View = "gone" <=> place # "here"
    /\ View \in {"gone", "skeleton", "error", "empty", "ready"}
    /\ View = "ready" => ~Read.error /\ Read.rows # Unread
    /\ View = "empty" =>
          /\ kind \in Lists /\ ~Read.error
          /\ Read.rows = {} \/ (kind # "accounts" /\ Read.rows = Unread /\ ~isFetching)
    /\ View = "skeleton" =>
          \/ kind = "accounts" /\ Read.rows = Unread
          \/ isFetching /\ (kind = "goal" \/ Read.rows = Unread)

LEMMA ViewsOfPages == KindOK => ViewFacts
<1>. SUFFICES ASSUME KindOK PROVE ViewFacts
  OBVIOUS
<1>1. CASE place # "here"
  <2>1. View = "gone"
    BY <1>1 DEF View
  <2>. QED
    BY <1>1, <2>1 DEF ViewFacts
<1>2. CASE place = "here" /\ kind = "accounts"
  <2>1. View = AccountsPage
    BY <1>2 DEF View
  <2>2. /\ AccountsPage \in {"skeleton", "error", "empty", "ready"}
        /\ AccountsPage = "ready" => ~Read.error /\ Read.rows # Unread
        /\ AccountsPage = "empty" => ~Read.error /\ Read.rows = {}
        /\ AccountsPage = "skeleton" => Read.rows = Unread
    BY DEF AccountsPage
  <2>. QED
    BY <1>2, <2>1, <2>2 DEF ViewFacts, Lists
<1>3. CASE place = "here" /\ kind \in {"goals", "rules"}
  <2>1. View = InvestmentsPage
    BY <1>3 DEF View, DesignBCardsGrid
  <2>2. /\ InvestmentsPage \in {"skeleton", "error", "empty", "ready"}
        /\ InvestmentsPage = "ready" => ~Read.error /\ Read.rows # Unread
        /\ InvestmentsPage = "empty" => ~Read.error /\ ~isLoading /\ Read.rows \in {Unread, {}}
        /\ InvestmentsPage = "skeleton" => isLoading
    BY DEF InvestmentsPage
  <2>. QED
    BY <1>3, <2>1, <2>2 DEF ViewFacts, isLoading, Lists
<1>4. CASE place = "here" /\ kind = "goal"
  <2>1. View = InvestmentGoalDetailPage
    BY <1>4 DEF View
  <2>2. /\ InvestmentGoalDetailPage \in {"skeleton", "error", "ready"}
        /\ InvestmentGoalDetailPage = "ready" => ~Read.error /\ Read.rows # Unread
        /\ InvestmentGoalDetailPage = "skeleton" => isFetching
    BY DEF InvestmentGoalDetailPage
  <2>. QED
    BY <1>4, <2>1, <2>2 DEF ViewFacts
<1>5. CASE place = "here" /\ kind \in {"account", "rule", "upload"}
  <2>1. View = RuleDetailPage
    BY <1>5 DEF View, AccountDetailPage, ReconciliationUploadDetailPage
  <2>2. /\ RuleDetailPage \in {"skeleton", "error", "ready"}
        /\ RuleDetailPage = "ready" => ~Read.error /\ Read.rows # Unread
        /\ RuleDetailPage = "skeleton" => isLoading
    BY DEF RuleDetailPage
  <2>. QED
    BY <1>5, <2>1, <2>2 DEF ViewFacts, isLoading
<1>. QED
  BY <1>1, <1>2, <1>3, <1>4, <1>5 DEF KindOK, Lists, Details

LEMMA ViewsAfter == KindOK' => ViewFacts'
  BY ViewsOfPages, PTL

USE EntityAssumption DEF EntityAssumption

LEMMA EntityStart == EntityInit => EntityInv
<1>. SUFFICES ASSUME EntityInit PROVE EntityInv
  OBVIOUS
<1>. USE DEF EntityInit
<1>1. PageTypes
  BY DEF PageTypes, KindOK, Chips
<1>2. CacheTypes
  BY DEF CacheTypes, Chips
<1>3. FormOnScreen
  BY DEF FormOnScreen, FormPlace
<1>4. StaleIsFetched
  BY DEF StaleIsFetched
<1>6. Waiting /\ OneDelete
  BY DEF Waiting, OneDelete
<1>5. OursAreRead /\ NeverThere
  BY DEF OursAreRead, NeverThere, Chips
<1>. QED
  BY <1>1, <1>2, <1>3, <1>4, <1>5, <1>6 DEF EntityInv

(***************************************************************************)
(* Steps that leave what is on screen alone: those of the server, typing,  *)
(* sending and asking.                                                     *)
(***************************************************************************)
LEMMA SameScreen ==
    ASSUME UNCHANGED <<kind, place, chip, wanted, cache, fetching>>
    PROVE  View' = View /\ FormPlace' = FormPlace /\ Read' = Read
           /\ (isFetching' <=> isFetching)
<1>. USE DEF Read, isFetching, EntityKey
<1>1. Read' = Read /\ (isFetching' <=> isFetching)
  OBVIOUS
<1>2. View' = View
  BY DEF View, AccountsPage, InvestmentsPage, DesignBCardsGrid, isLoading,
         InvestmentGoalDetailPage, AccountDetailPage, ReconciliationUploadDetailPage,
         RuleDetailPage
<1>3. FormPlace' = FormPlace
  BY <1>2 DEF FormPlace
<1>. QED
  BY <1>1, <1>2, <1>3

LEMMA QuietStep ==
    ASSUME EntityInv, UNCHANGED <<kind, place, known, chip, wanted, cache, fetching,
                                  shownForm, formsShown, redrawn>>,
           typed' => shownForm # 0, PageTypes', OursAreRead', Waiting', OneDelete',
           NeverThere'
    PROVE  EntityInv'
<1>. USE DEF EntityInv
<1>1. /\ FormPlace' = FormPlace /\ Read' = Read /\ (isFetching' <=> isFetching)
  BY SameScreen
<1>2. CacheTypes'
  BY DEF CacheTypes, Passing
<1>3. FormOnScreen' /\ StaleIsFetched'
  BY <1>1 DEF FormOnScreen, StaleIsFetched
<1>. QED
  BY <1>2, <1>3

\* A form that is up is over data that were read.
LEMMA FormNeedsData ==
    ASSUME EntityInv, kind \in Details, View = "ready" \/ shownForm # 0
    PROVE  \E k \in Chips : cache[k].rows # Unread
<1>1. View = "ready"
  <2>1. KindOK /\ ViewFacts
    BY ViewsOfPages DEF EntityInv, PageTypes
  <2>2. shownForm # 0 => View \in {"empty", "ready"}
    BY DEF EntityInv, FormOnScreen, FormPlace
  <2>. QED
    BY <2>1, <2>2 DEF ViewFacts, Lists, Details
<1>2. Read.rows # Unread
  BY <1>1, ViewsOfPages DEF ViewFacts, EntityInv, PageTypes
<1>. QED
  BY <1>2 DEF Read, EntityKey, EntityInv, PageTypes, Chips

LEMMA TypeStep == ASSUME EntityInv, Type PROVE EntityInv'
<1>1. /\ UNCHANGED <<entityScreen, shownForm, formsShown, dataVars, saving, waitsFor,
                     removals, strangers, slips, did, history>>
      /\ shownForm # 0
  BY DEF Type
<1>2. PageTypes' /\ OursAreRead' /\ Waiting' /\ OneDelete' /\ NeverThere'
  BY <1>1 DEF EntityInv, PageTypes, KindOK, OursAreRead, Passing, Waiting, OneDelete,
              NeverThere, entityScreen, dataVars, history
<1>. QED
  BY <1>1, <1>2, QuietStep DEF entityScreen, dataVars, history

LEMMA SubmitFormStep == ASSUME EntityInv, SubmitForm PROVE EntityInv'
<1>. USE DEF EntityInv
<1>1. /\ UNCHANGED <<kind, place, known, chip, wanted, entities, cache, fetching, shownForm,
                     formsShown, typed, waitsFor, removals, strangers, slips, ours, redrawn>>
      /\ did' = did + 1 /\ saving = {} /\ shownForm # 0
  BY DEF SubmitForm, entityScreen, formState, dataVars, history
<1>2. PICK e \in Entities : saving' = {[makes |-> e, saved |-> FALSE]}
  BY DEF SubmitForm
<1>3. PageTypes'
  <2>1. removals' \subseteq [no : 1..did', removed : BOOLEAN]
    BY <1>1 DEF PageTypes
  <2>2. saving' \subseteq [makes : Entities, saved : BOOLEAN] /\ \A s, t \in saving' : s = t
    BY <1>2
  <2>. QED
    BY <1>1, <2>1, <2>2 DEF PageTypes, KindOK
<1>4. OursAreRead' /\ Waiting' /\ OneDelete'
  BY <1>1, <1>2 DEF OursAreRead, Passing, Waiting, OneDelete
<1>5. NeverThere'
  BY <1>1, FormNeedsData DEF NeverThere
<1>. QED
  BY <1>1, <1>3, <1>4, <1>5, QuietStep DEF FormOnScreen

LEMMA SaveSteps ==
    ASSUME EntityInv, NEW s \in saving, ServerSaves(s) \/ SaveMissed(s)
    PROVE  EntityInv'
<1>. USE DEF EntityInv
<1>1. /\ UNCHANGED <<kind, place, known, chip, wanted, cache, fetching, shownForm,
                     formsShown, typed, waitsFor, removals, strangers, did, redrawn>>
  BY DEF ServerSaves, SaveMissed, entityScreen, formState, dataVars
<1>2. s \in [makes : Entities, saved : BOOLEAN] /\ saving = {s}
  BY DEF PageTypes
<1>3. CASE ServerSaves(s)
  <2>. DEFINE t == [s EXCEPT !.saved = TRUE]
  <2>1. /\ entities' = entities \cup {s.makes} /\ saving' = {t} /\ slips' = slips
        /\ ours' = IF kind \in Lists THEN ours \cup {s.makes} ELSE ours
        /\ ~s.saved
    BY <1>3 DEF ServerSaves
  <2>2. t \in [makes : Entities, saved : BOOLEAN] /\ t.saved /\ t.makes = s.makes
    BY <1>2
  <2>. HIDE DEF t
  <2>3. PageTypes'
    BY <1>1, <1>2, <2>1, <2>2 DEF PageTypes, KindOK, Lists, Details
  <2>4. OursAreRead'
    BY <1>1, <1>2, <2>1, <2>2 DEF OursAreRead, Passing
  <2>5. Waiting' /\ OneDelete' /\ NeverThere'
    BY <1>1, <2>1 DEF Waiting, OneDelete, NeverThere
  <2>. QED
    BY <1>1, <2>3, <2>4, <2>5, QuietStep DEF FormOnScreen
<1>4. CASE SaveMissed(s)
  <2>1. /\ entities' = entities /\ saving' = {} /\ slips' = slips + 1
        /\ ours' = ours \ {s.makes}
    BY <1>4 DEF SaveMissed, dataVars
  <2>2. PageTypes'
    BY <1>1, <2>1 DEF PageTypes, KindOK
  <2>3. OursAreRead'
    BY <1>1, <1>2, <2>1 DEF OursAreRead, Passing
  <2>4. slips' # 0
    BY <2>1 DEF PageTypes
  <2>5. Waiting' /\ OneDelete' /\ NeverThere'
    BY <1>1, <2>1, <2>4 DEF Waiting, OneDelete, NeverThere
  <2>. QED
    BY <1>1, <2>2, <2>3, <2>5, QuietStep DEF FormOnScreen
<1>. QED
  BY <1>3, <1>4

LEMMA AskDeleteStep ==
    ASSUME EntityInv, NEW open \in BOOLEAN, setIsDeleteDialogOpen(open)
    PROVE  EntityInv'
<1>1. UNCHANGED <<kind, place, known, chip, wanted, entities, cache, fetching, shownForm,
                  formsShown, typed, saving, waitsFor, removals, strangers, slips, did,
                  ours, redrawn>>
  BY DEF setIsDeleteDialogOpen, formState, dataVars, history
<1>2. PageTypes' /\ OursAreRead' /\ Waiting' /\ OneDelete' /\ NeverThere'
  BY <1>1 DEF EntityInv, PageTypes, KindOK, OursAreRead, Passing, Waiting, OneDelete,
              NeverThere
<1>. QED
  BY <1>1, <1>2, QuietStep DEF EntityInv, FormOnScreen

LEMMA handleDeleteStep == ASSUME EntityInv, handleDelete PROVE EntityInv'
<1>. USE DEF EntityInv
<1>. DEFINE new == [no |-> did + 1, removed |-> FALSE]
<1>1. /\ UNCHANGED <<kind, place, known, chip, wanted, entities, cache, fetching, shownForm,
                     formsShown, typed, saving, strangers, slips, ours, redrawn>>
      /\ kind \in Details /\ waitsFor = 0 /\ did' = did + 1 /\ waitsFor' = did + 1
      /\ removals' = removals \cup {new}
  BY DEF handleDelete, entityScreen, formState, dataVars, history
<1>2. did \in Nat /\ new \in [no : 1..(did + 1), removed : BOOLEAN] /\ new.no = did + 1
  BY DEF PageTypes
<1>. HIDE DEF new
<1>3. \A r \in removals : r \in [no : 1..(did + 1), removed : BOOLEAN] /\ r.no # 0
  BY <1>2 DEF PageTypes
<1>4. PageTypes'
  BY <1>1, <1>2, <1>3 DEF PageTypes, KindOK
<1>5. OursAreRead' /\ Waiting' /\ NeverThere'
  BY <1>1, <1>2 DEF OursAreRead, Passing, Waiting, NeverThere
<1>6. OneDelete'
  <2>1. place = "here"
    BY ViewsOfPages DEF handleDelete, PageTypes, ViewFacts
  <2>2. kind \notin Asks \/ ~redrawn => removals = {}
    BY <1>1, <1>3, <2>1 DEF OneDelete
  <2>. QED
    BY <1>1, <1>2, <2>2 DEF OneDelete
<1>. QED
  BY <1>1, <1>4, <1>5, <1>6, QuietStep DEF FormOnScreen

LEMMA RemovalSteps ==
    ASSUME EntityInv, NEW r \in removals, ServerRemoves(r) \/ RemovalMissed(r)
    PROVE  EntityInv'
<1>. USE DEF EntityInv
<1>1. UNCHANGED <<kind, place, known, chip, wanted, cache, fetching, shownForm, formsShown,
                  typed, saving, strangers, did, ours, redrawn>>
  BY DEF ServerRemoves, RemovalMissed, entityScreen, formState, dataVars, history
<1>2. r \in [no : 1..did, removed : BOOLEAN] /\ kind \in Details /\ ours = {}
  BY DEF PageTypes
<1>3. CASE ServerRemoves(r)
  <2>. DEFINE t == [r EXCEPT !.removed = TRUE]
  <2>1. /\ removals' = (removals \ {r}) \cup {t} /\ entities' = entities \ {Mine}
        /\ UNCHANGED <<waitsFor, slips>>
    BY <1>3 DEF ServerRemoves
  <2>2. t \in [no : 1..did, removed : BOOLEAN] /\ t.no = r.no
    BY <1>2
  <2>. HIDE DEF t
  <2>3. PageTypes'
    BY <1>1, <1>2, <2>1, <2>2 DEF PageTypes, KindOK
  <2>4. OursAreRead' /\ Waiting' /\ OneDelete' /\ NeverThere'
    BY <1>1, <1>2, <2>1, <2>2 DEF OursAreRead, Passing, Waiting, OneDelete, NeverThere
  <2>. QED
    BY <1>1, <2>3, <2>4, QuietStep DEF FormOnScreen
<1>4. CASE RemovalMissed(r)
  <2>1. /\ removals' = removals \ {r} /\ slips' = slips + 1 /\ entities' = entities
        /\ waitsFor' = IF waitsFor = r.no THEN 0 ELSE waitsFor
    BY <1>4 DEF RemovalMissed, dataVars
  <2>2. PageTypes' /\ slips' # 0
    BY <1>1, <2>1 DEF PageTypes, KindOK
  <2>3. OursAreRead' /\ Waiting' /\ OneDelete' /\ NeverThere'
    BY <1>1, <1>2, <2>1, <2>2 DEF OursAreRead, Passing, Waiting, OneDelete, NeverThere
  <2>. QED
    BY <1>1, <2>2, <2>3, QuietStep DEF FormOnScreen
<1>. QED
  BY <1>3, <1>4

LEMMA StrangerStep == ASSUME EntityInv, NEW e \in Entities, Elsewhere(e) PROVE EntityInv'
<1>. USE DEF EntityInv
<1>1. /\ UNCHANGED <<kind, place, known, chip, wanted, cache, fetching, shownForm,
                     formsShown, typed, saving, waitsFor, removals, slips, did, redrawn>>
      /\ strangers' = strangers + 1 /\ ours' = ours \ {e}
      /\ entities' = IF e \in entities THEN entities \ {e} ELSE entities \cup {e}
  BY DEF Elsewhere, entityScreen, formState
<1>2. PageTypes' /\ strangers' # 0
  BY <1>1 DEF PageTypes, KindOK
<1>3. OursAreRead' /\ Waiting' /\ OneDelete' /\ NeverThere'
  BY <1>1, <1>2 DEF OursAreRead, Passing, Waiting, OneDelete, NeverThere
<1>. QED
  BY <1>1, <1>2, <1>3, QuietStep DEF FormOnScreen

(***************************************************************************)
(* Steps that draw the page anew.                                          *)
(***************************************************************************)
LEMMA RedrawKeeps ==
    ASSUME EntityInv, Redraw, kind' = kind, place' = "here" => place = "here",
           removals' \subseteq removals, place' = "here" => removals' = removals
    PROVE  FormOnScreen' /\ formsShown' \in Nat /\ Waiting' /\ OneDelete'
<1>. USE DEF EntityInv
<1>0. KindOK /\ KindOK' /\ ViewFacts'
  BY ViewsAfter DEF PageTypes, KindOK
<1>1. formsShown' \in Nat /\ FormOnScreen'
  <2>1. CASE FormPlace' = FormPlace
    BY <2>1 DEF Redraw, FormOnScreen, formState, PageTypes
  <2>2. CASE FormPlace' # FormPlace
    BY <2>2 DEF Redraw, FormOnScreen, PageTypes
  <2>. QED
    BY <2>1, <2>2
<1>2. /\ waitsFor' = IF place' = "here" /\ (kind \in Asks => View' = "ready")
                     THEN waitsFor ELSE 0
      /\ redrawn' = (redrawn \/ (waitsFor # 0 /\ View' \in {"skeleton", "error"}))
  BY DEF Redraw
<1>3. Waiting'
  BY <1>2 DEF Waiting
<1>4. \A r \in removals : r.no # 0
  BY DEF PageTypes
<1>5. ASSUME kind \notin Asks \/ ~redrawn'
      PROVE  /\ \A q, r \in removals' : q = r
             /\ place' = "here" => \A r \in removals' : r.no = waitsFor'
  <2>1. kind \notin Asks \/ ~redrawn
    BY <1>2, <1>5
  <2>2. \A q, r \in removals' : q = r
    BY <2>1 DEF OneDelete
  <2>3. ASSUME place' = "here", NEW r \in removals' PROVE r.no = waitsFor'
    <3>1. r \in removals /\ r.no = waitsFor /\ waitsFor # 0
      BY <2>1, <2>3, <1>4 DEF OneDelete
    <3>2. kind \in Asks => View' = "ready"
      <4>. SUFFICES ASSUME kind \in Asks PROVE View' = "ready"
        OBVIOUS
      <4>1. View' \notin {"skeleton", "error"}
        BY <1>2, <1>5, <3>1
      <4>2. kind' \notin Lists /\ place' = "here"
        BY <2>3 DEF Asks, Lists
      <4>. QED
        BY <1>0, <4>1, <4>2 DEF ViewFacts
    <3>. QED
      BY <1>2, <2>3, <3>1, <3>2
  <2>. QED
    BY <2>2, <2>3
<1>. QED
  BY <1>1, <1>3, <1>5 DEF OneDelete

\* Where the entities and what is on its way stay as they are.
LEMMA DrawnAnew ==
    ASSUME EntityInv, Redraw, UNCHANGED <<kind, entities, removals, strangers, did, ours>>,
           place' = "here" => place = "here", place' \in {"here", "list", "elsewhere"},
           chip' \in Chips, kind \notin {"rules", "upload"} => chip' = "all",
           kind = "upload" => ~wanted', slips' \in Nat, slips' = 0 => slips = 0,
           saving' \subseteq saving, CacheTypes', StaleIsFetched', OursAreRead',
           \A k \in Chips : cache'[k].rows = cache[k].rows \/ kind \in Lists
                            \/ Mine \in entities
    PROVE  EntityInv'
<1>. USE DEF EntityInv
<1>1. FormOnScreen' /\ formsShown' \in Nat /\ Waiting' /\ OneDelete'
  BY RedrawKeeps
<1>2. PageTypes'
  BY <1>1 DEF PageTypes, KindOK
<1>3. NeverThere'
  BY DEF NeverThere, Lists, Details
<1>. QED
  BY <1>1, <1>2, <1>3

\* Where the data stay as they are as well, but that a fetch may begin.
LEMMA SameData ==
    ASSUME EntityInv, cache' = cache, kind' = kind, ours' = ours, saving' = saving,
           fetching \subseteq fetching', fetching' \subseteq Chips
    PROVE  CacheTypes' /\ OursAreRead'
  BY DEF EntityInv, CacheTypes, OursAreRead, Passing

LEMMA FetchIfAsks ==
    ASSUME EntityInv, NEW stale \in BOOLEAN, FetchIf(stale), kind' = kind, chip' \in Chips
    PROVE  /\ fetching \subseteq fetching' /\ fetching' \subseteq Chips
           /\ known' /\ place' = "here" /\ stale => isFetching'
  BY DEF FetchIf, isFetching, EntityKey, EntityInv, CacheTypes, Chips

LEMMA SessionKnownStep == ASSUME EntityInv, SessionKnown PROVE EntityInv'
<1>. USE DEF EntityInv
<1>1. /\ UNCHANGED <<kind, place, chip, wanted, entities, cache, saving, removals,
                     strangers, slips, did, ours>>
      /\ FetchIf(Read.stale) /\ Redraw
  BY DEF SessionKnown
<1>2. Read.stale \in BOOLEAN
  BY DEF CacheTypes, PageTypes, Read, EntityKey, Chips
<1>3. fetching \subseteq fetching' /\ fetching' \subseteq Chips
      /\ (known' /\ place' = "here" /\ Read.stale => isFetching')
  BY <1>1, <1>2, FetchIfAsks DEF PageTypes
<1>4. CacheTypes' /\ OursAreRead'
  BY <1>1, <1>3, SameData
<1>5. Read' = Read
  BY <1>1 DEF Read, EntityKey
<1>6. StaleIsFetched'
  BY <1>3, <1>5 DEF StaleIsFetched
<1>. QED
  BY <1>1, <1>4, <1>6, DrawnAnew DEF PageTypes

LEMMA LookAgainStep == ASSUME EntityInv, LookAgain PROVE EntityInv'
<1>. USE DEF EntityInv
<1>1. /\ UNCHANGED <<kind, place, chip, wanted, entities, cache, saving, removals,
                     strangers, slips, did, ours>>
      /\ FetchIf(TRUE) /\ Redraw
  BY DEF LookAgain, entityScreen
<1>3. fetching \subseteq fetching' /\ fetching' \subseteq Chips
      /\ (known' /\ place' = "here" => isFetching')
  BY <1>1, FetchIfAsks DEF PageTypes
<1>4. CacheTypes' /\ OursAreRead'
  BY <1>1, <1>3, SameData
<1>6. StaleIsFetched'
  BY <1>3 DEF StaleIsFetched
<1>. QED
  BY <1>1, <1>4, <1>6, DrawnAnew DEF PageTypes

LEMMA FilterSteps ==
    ASSUME EntityInv, NEW c \in Chips, setContributionFilter(c) \/ setTxnPage(c)
    PROVE  EntityInv'
<1>. USE DEF EntityInv
<1>1. /\ UNCHANGED <<kind, place, wanted, entities, cache, saving, removals,
                     strangers, slips, did, ours>>
      /\ FetchIf(cache[EntityKey(c)].stale) /\ Redraw
      /\ kind \in {"rules", "upload"} /\ chip' = c
  BY DEF setContributionFilter, setTxnPage
<1>2. EntityKey(c) = c /\ cache[c].stale \in BOOLEAN
  BY <1>1 DEF CacheTypes, EntityKey
<1>3. fetching \subseteq fetching' /\ fetching' \subseteq Chips
      /\ (known' /\ place' = "here" /\ cache[c].stale => isFetching')
  BY <1>1, <1>2, FetchIfAsks
<1>4. CacheTypes' /\ OursAreRead'
  BY <1>1, <1>3, SameData
<1>5. Read' = cache[c]
  BY <1>1 DEF Read, EntityKey
<1>6. StaleIsFetched'
  BY <1>3, <1>5 DEF StaleIsFetched
<1>. QED
  BY <1>1, <1>4, <1>6, DrawnAnew DEF PageTypes

LEMMA OpenFormStep ==
    ASSUME EntityInv, NEW open \in BOOLEAN, setIsCreateDialogOpen(open)
    PROVE  EntityInv'
<1>. USE DEF EntityInv
<1>1. /\ UNCHANGED <<kind, place, known, chip, entities, cache, fetching, saving, removals,
                     strangers, slips, did, ours>>
      /\ Redraw /\ kind # "upload"
  BY DEF setIsCreateDialogOpen, dataVars
<1>2. CacheTypes' /\ OursAreRead'
  BY <1>1, SameData DEF CacheTypes
<1>3. Read' = Read /\ (isFetching' <=> isFetching)
  BY <1>1 DEF Read, EntityKey, isFetching
<1>4. StaleIsFetched'
  BY <1>1, <1>3 DEF StaleIsFetched
<1>. QED
  BY <1>1, <1>2, <1>4, DrawnAnew DEF PageTypes

LEMMA FollowLinkStep == ASSUME EntityInv, FollowLink PROVE EntityInv'
<1>. USE DEF EntityInv
<1>1. /\ UNCHANGED <<kind, known, chip, wanted, entities, cache, fetching, saving, removals,
                     strangers, slips, did, ours>>
      /\ Redraw /\ place' = "elsewhere"
  BY DEF FollowLink, dataVars
<1>2. CacheTypes' /\ OursAreRead'
  BY <1>1, SameData DEF CacheTypes
<1>4. StaleIsFetched'
  BY <1>1 DEF StaleIsFetched
<1>. QED
  BY <1>1, <1>2, <1>4, DrawnAnew DEF PageTypes

LEMMA ArrivedStep == ASSUME EntityInv, NEW k \in fetching, Arrived(k) PROVE EntityInv'
<1>. USE DEF EntityInv
<1>. DEFINE found == IF kind \in Lists
           THEN [rows |-> entities \cap Passing(k), error |-> FALSE, stale |-> FALSE]
           ELSE IF Mine \in entities
           THEN [rows |-> {Mine}, error |-> FALSE, stale |-> FALSE]
           ELSE [cache[k] EXCEPT !.error = TRUE, !.stale = TRUE]
<1>1. /\ UNCHANGED <<kind, place, known, chip, wanted, entities, saving, removals,
                     strangers, slips, did, ours>>
      /\ fetching' = fetching \ {k} /\ cache' = [cache EXCEPT ![k] = found] /\ Redraw
  BY DEF Arrived, entityScreen
<1>2. k \in Chips /\ cache[k] \in [rows : {Unread} \cup SUBSET Entities, error : BOOLEAN,
                                   stale : BOOLEAN]
  BY DEF CacheTypes
<1>3. /\ found \in [rows : {Unread} \cup SUBSET Entities, error : BOOLEAN, stale : BOOLEAN]
      /\ found.rows = Unread => found.stale
      /\ kind \in Lists => found.rows = entities \cap Passing(k)
      /\ kind \notin Lists => found.rows = cache[k].rows \/ Mine \in entities
      /\ found.stale => found.error
  BY <1>2 DEF PageTypes
<1>. HIDE DEF found
<1>4. \A j \in Chips : cache'[j] = IF j = k THEN found ELSE cache[j]
  BY <1>1 DEF CacheTypes
<1>5. CacheTypes'
  <2>1. cache' \in [Chips -> [rows : {Unread} \cup SUBSET Entities, error : BOOLEAN,
                              stale : BOOLEAN]]
    BY <1>1, <1>3 DEF CacheTypes
  <2>2. Passing(k)' = Passing(k) /\ \A j \in Chips : Passing(j)' = Passing(j)
    BY DEF Passing
  <2>. QED
    BY <1>1, <1>3, <1>4, <2>1, <2>2 DEF CacheTypes
<1>6. StaleIsFetched'
  <2>1. EntityKey(chip)' = EntityKey(chip) /\ EntityKey(chip) \in Chips
    BY <1>1 DEF EntityKey, PageTypes, Chips
  <2>. QED
    BY <1>1, <1>3, <1>4, <2>1 DEF StaleIsFetched, Read, isFetching
<1>7. OursAreRead'
  BY <1>1, <1>3, <1>4 DEF OursAreRead, Passing, PageTypes
<1>. QED
  BY <1>1, <1>3, <1>4, <1>5, <1>6, <1>7, DrawnAnew DEF PageTypes

LEMMA FetchFailsStep == ASSUME EntityInv, NEW k \in fetching, FetchFails(k) PROVE EntityInv'
<1>. USE DEF EntityInv
<1>. DEFINE failed == [cache[k] EXCEPT !.error = TRUE, !.stale = TRUE]
<1>1. /\ UNCHANGED <<kind, place, known, chip, wanted, entities, saving, removals,
                     strangers, did, ours>>
      /\ fetching' = fetching \ {k} /\ slips' = slips + 1
      /\ cache' = [cache EXCEPT ![k].error = TRUE, ![k].stale = TRUE] /\ Redraw
  BY DEF FetchFails, entityScreen
<1>2. k \in Chips /\ cache[k] \in [rows : {Unread} \cup SUBSET Entities, error : BOOLEAN,
                                   stale : BOOLEAN]
  BY DEF CacheTypes
<1>3. /\ failed \in [rows : {Unread} \cup SUBSET Entities, error : BOOLEAN, stale : BOOLEAN]
      /\ failed.stale /\ failed.error /\ failed.rows = cache[k].rows
  BY <1>2
<1>4. cache' = [cache EXCEPT ![k] = failed]
  BY <1>1, <1>2 DEF CacheTypes
<1>. HIDE DEF failed
<1>5. \A j \in Chips : cache'[j] = IF j = k THEN failed ELSE cache[j]
  BY <1>4 DEF CacheTypes
<1>6. CacheTypes'
  <2>1. cache' \in [Chips -> [rows : {Unread} \cup SUBSET Entities, error : BOOLEAN,
                              stale : BOOLEAN]]
    BY <1>3, <1>4 DEF CacheTypes
  <2>2. \A j \in Chips : Passing(j)' = Passing(j)
    BY DEF Passing
  <2>. QED
    BY <1>1, <1>3, <1>5, <2>1, <2>2 DEF CacheTypes
<1>7. StaleIsFetched'
  <2>1. EntityKey(chip)' = EntityKey(chip) /\ EntityKey(chip) \in Chips
    BY <1>1 DEF EntityKey, PageTypes, Chips
  <2>. QED
    BY <1>1, <1>3, <1>5, <2>1 DEF StaleIsFetched, Read, isFetching
<1>8. OursAreRead'
  <2>1. \A j \in Chips : ~cache'[j].stale => cache'[j] = cache[j] /\ ~cache[j].stale
    BY <1>3, <1>5
  <2>2. \A j \in Chips : Passing(j)' = Passing(j)
    BY DEF Passing
  <2>. QED
    BY <1>1, <2>1, <2>2 DEF OursAreRead
<1>9. slips' \in Nat /\ slips' # 0
  BY <1>1 DEF PageTypes
<1>. QED
  BY <1>1, <1>3, <1>5, <1>6, <1>7, <1>8, <1>9, DrawnAnew DEF PageTypes

LEMMA MarkedStale ==
    ASSUME EntityInv, invalidateQueries, kind' = kind, fetching' \subseteq Chips
    PROVE  CacheTypes' /\ OursAreRead' /\ \A k \in Chips : cache'[k].rows = cache[k].rows
<1>. USE DEF EntityInv
<1>1. \A k \in Chips : cache[k] \in [rows : {Unread} \cup SUBSET Entities, error : BOOLEAN,
                                     stale : BOOLEAN]
  BY DEF CacheTypes
<1>2. cache' = [k \in Chips |-> [cache[k] EXCEPT !.stale = TRUE]]
  BY DEF invalidateQueries, CacheTypes
<1>3. \A k \in Chips : /\ cache'[k].rows = cache[k].rows /\ cache'[k].stale
                       /\ cache'[k] \in [rows : {Unread} \cup SUBSET Entities,
                                         error : BOOLEAN, stale : BOOLEAN]
  BY <1>1, <1>2
<1>4. cache' \in [Chips -> [rows : {Unread} \cup SUBSET Entities, error : BOOLEAN,
                            stale : BOOLEAN]]
  BY <1>2, <1>3
<1>. QED
  BY <1>3, <1>4 DEF CacheTypes, OursAreRead, Passing

LEMMA SavedStep == ASSUME EntityInv, NEW s \in saving, Saved(s) PROVE EntityInv'
<1>. USE DEF EntityInv
<1>1. /\ UNCHANGED <<kind, place, known, chip, entities, removals, strangers, slips, did,
                     ours>>
      /\ saving' = {} /\ wanted' = FALSE /\ invalidateQueries /\ FetchIf(TRUE) /\ Redraw
  BY DEF Saved
<1>2. fetching' \subseteq Chips /\ (known' /\ place' = "here" => isFetching')
  BY <1>1, FetchIfAsks DEF PageTypes
<1>3. CacheTypes' /\ OursAreRead' /\ \A k \in Chips : cache'[k].rows = cache[k].rows
  BY <1>1, <1>2, MarkedStale
<1>4. StaleIsFetched'
  BY <1>2 DEF StaleIsFetched
<1>. QED
  BY <1>1, <1>3, <1>4, DrawnAnew DEF PageTypes

LEMMA DeletedStep == ASSUME EntityInv, NEW r \in removals, Deleted(r) PROVE EntityInv'
<1>. USE DEF EntityInv
<1>1. /\ UNCHANGED <<kind, known, chip, wanted, entities, saving, strangers, slips, did, ours>>
      /\ removals' = removals \ {r} /\ place' = "list"
      /\ invalidateQueries /\ FetchIf(TRUE) /\ Redraw
  BY DEF Deleted, pushList
<1>2. fetching' \subseteq Chips
  BY <1>1, FetchIfAsks DEF PageTypes
<1>3. CacheTypes' /\ OursAreRead'
  BY <1>1, <1>2, MarkedStale
<1>4. FormOnScreen' /\ formsShown' \in Nat /\ Waiting' /\ OneDelete'
  BY <1>1, RedrawKeeps
<1>5. PageTypes'
  BY <1>1, <1>4 DEF PageTypes, KindOK
<1>. QED
  BY <1>1, <1>3, <1>4, <1>5 DEF StaleIsFetched, NeverThere

LEMMA EntityStep == EntityInv /\ [EntityNext]_entityVars => EntityInv'
<1>. SUFFICES ASSUME EntityInv, [EntityNext]_entityVars PROVE EntityInv'
  OBVIOUS
<1>1. CASE UNCHANGED entityVars
  <2>1. UNCHANGED <<kind, place, known, chip, wanted, entities, cache, fetching, shownForm,
                    formsShown, typed, saving, waitsFor, removals, strangers, slips, did,
                    ours, redrawn>>
    BY <1>1 DEF entityVars, entityScreen, formState, dataVars, history
  <2>2. PageTypes' /\ OursAreRead' /\ Waiting' /\ OneDelete' /\ NeverThere'
    BY <2>1 DEF EntityInv, PageTypes, KindOK, OursAreRead, Passing, Waiting, OneDelete,
                NeverThere
  <2>. QED
    BY <2>1, <2>2, QuietStep DEF EntityInv, FormOnScreen
<1>2. CASE SessionKnown \/ LookAgain \/ Type \/ SubmitForm \/ handleDelete \/ FollowLink
  BY <1>2, SessionKnownStep, LookAgainStep, TypeStep, SubmitFormStep, handleDeleteStep,
     FollowLinkStep
<1>3. CASE \E k \in fetching : Arrived(k) \/ FetchFails(k)
  BY <1>3, ArrivedStep, FetchFailsStep
<1>4. CASE \E c \in {"all", "sip"} : setContributionFilter(c) \/ setTxnPage(c)
  BY <1>4, FilterSteps DEF Chips
<1>5. CASE \E open \in BOOLEAN : setIsCreateDialogOpen(open) \/ setIsDeleteDialogOpen(open)
  BY <1>5, OpenFormStep, AskDeleteStep
<1>6. CASE \E s \in saving : ServerSaves(s) \/ Saved(s) \/ SaveMissed(s)
  BY <1>6, SaveSteps, SavedStep
<1>7. CASE \E r \in removals : ServerRemoves(r) \/ Deleted(r) \/ RemovalMissed(r)
  BY <1>7, RemovalSteps, DeletedStep
<1>8. CASE \E e \in Entities : Elsewhere(e)
  BY <1>8, StrangerStep
<1>. QED
  BY <1>1, <1>2, <1>3, <1>4, <1>5, <1>6, <1>7, <1>8 DEF EntityNext

LEMMA EntityAreWhatTheySay == EntityInv => EntitySafe
<1>. SUFFICES ASSUME EntityInv PROVE EntitySafe
  OBVIOUS
<1>. USE DEF EntityInv
<1>0. ViewFacts /\ EntityKey(chip) \in Chips
  BY ViewsOfPages DEF PageTypes, EntityKey, Chips
<1>1. EntityTypeOK
  BY DEF EntityTypeOK, PageTypes, KindOK, CacheTypes, FormOnScreen, Waiting
<1>2. ScreenIsTrue
  <2>1. View = "skeleton" /\ known => isFetching \/ (kind = "accounts" /\ Read.error)
    BY <1>0 DEF ViewFacts, StaleIsFetched, CacheTypes, Read
  <2>2. View = "empty" /\ known => Read.rows = {}
    BY <1>0 DEF ViewFacts, StaleIsFetched, CacheTypes, Read
  <2>3. View = "ready" /\ kind \in Lists => Read.rows \subseteq Passing(chip)
    BY <1>0 DEF ViewFacts, CacheTypes, Read, PageTypes, Passing, EntityKey, Chips
  <2>. QED
    BY <2>1, <2>2, <2>3 DEF ScreenIsTrue
<1>3. MadeIsListed
  <2>. SUFFICES ASSUME View \in {"empty", "ready"}, known, ~isFetching, saving = {},
                       kind \in Lists
                PROVE  ours \cap Passing(chip) \subseteq Read.rows
    BY DEF MadeIsListed
  <2>1. ~Read.stale
    BY <1>0 DEF ViewFacts, StaleIsFetched
  <2>2. Passing(chip) \subseteq Passing(EntityKey(chip))
    BY DEF Passing, EntityKey, PageTypes
  <2>. QED
    BY <1>0, <2>1, <2>2 DEF OursAreRead, Read
<1>4. DeletedOnce
  <2>1. ASSUME \A q, r \in removals : q = r PROVE ~(Cardinality(removals) > 1)
    <3>1. CASE removals = {}
      BY <3>1, FS_EmptySet
    <3>2. CASE removals # {}
      <4>1. PICK r \in removals : removals = {r}
        BY <2>1, <3>2
      <4>2. Cardinality({r}) = 1
        BY FS_Singleton
      <4>. QED
        BY <4>1, <4>2
    <3>. QED
      BY <3>1, <3>2
  <2>2. Cardinality(removals) > 1 => kind \in Asks /\ redrawn
    BY <2>1 DEF OneDelete
  <2>3. strangers > 0 \/ slips > 0 <=> ~(strangers = 0 /\ slips = 0)
    BY DEF PageTypes
  <2>. QED
    BY <2>2, <2>3 DEF DeletedOnce, NeverThere
<1>. QED
  BY <1>1, <1>2, <1>3, <1>4 DEF EntitySafe

\* An entity's page shows what its load found, lists what was made on it and
\* deletes once (the pages of accounts, goals, rules and uploads).
THEOREM EntityIsSafe == EntitySpec => []EntitySafe
<1>. QED
  BY EntityStart, EntityStep, EntityAreWhatTheySay, PTL DEF EntitySpec

\* Under a form that is open, what was read stays read.
LEMMA ReadStays ==
    ASSUME EntityInv, [EntityNext]_entityVars, typed, ~typed', wanted
    PROVE  kind' = kind /\ Redraw /\ (Read.rows # Unread => Read.rows' # Unread)
<1>. USE DEF EntityInv
<1>0. EntityKey(chip) \in Chips /\ kind # "upload" /\ \A k \in fetching : k \in Chips
  BY DEF PageTypes, EntityKey, Chips, CacheTypes
<1>1. ASSUME UNCHANGED <<kind, chip>>, Redraw, \A k \in Chips :
                 cache[k].rows # Unread => cache'[k].rows # Unread
      PROVE  kind' = kind /\ Redraw /\ (Read.rows # Unread => Read.rows' # Unread)
  BY <1>0, <1>1 DEF Read, EntityKey
<1>2. CASE UNCHANGED entityVars
  BY <1>2 DEF entityVars, formState
<1>3. CASE SessionKnown \/ LookAgain \/ FollowLink
  <2>1. UNCHANGED <<kind, chip, cache>> /\ Redraw
    BY <1>3 DEF SessionKnown, LookAgain, FollowLink, entityScreen, dataVars
  <2>. QED
    BY <1>1, <2>1
<1>4. CASE Type \/ SubmitForm \/ handleDelete
  BY <1>4 DEF Type, SubmitForm, handleDelete, formState
<1>5. ASSUME NEW k \in fetching, Arrived(k) \/ FetchFails(k)
      PROVE  kind' = kind /\ Redraw /\ (Read.rows # Unread => Read.rows' # Unread)
  <2>1. UNCHANGED <<kind, chip>> /\ Redraw
    BY <1>5 DEF Arrived, FetchFails, entityScreen
  <2>2. cache[k] \in [rows : {Unread} \cup SUBSET Entities, error : BOOLEAN,
                      stale : BOOLEAN] /\ DOMAIN cache = Chips /\ k \in Chips
    BY <1>0 DEF CacheTypes
  <2>3. CASE FetchFails(k)
    <3>1. \A j \in Chips : cache'[j].rows = cache[j].rows
      BY <2>2, <2>3 DEF FetchFails
    <3>. QED
      BY <1>1, <2>1, <3>1
  <2>4. CASE Arrived(k)
    <3>. DEFINE found == IF kind \in Lists
           THEN [rows |-> entities \cap Passing(k), error |-> FALSE, stale |-> FALSE]
           ELSE IF Mine \in entities
           THEN [rows |-> {Mine}, error |-> FALSE, stale |-> FALSE]
           ELSE [cache[k] EXCEPT !.error = TRUE, !.stale = TRUE]
    <3>1. cache' = [cache EXCEPT ![k] = found]
      BY <2>4 DEF Arrived
    <3>2. cache[k].rows # Unread => found.rows # Unread
      <4>1. found.rows \in SUBSET Entities \/ found.rows = cache[k].rows
        BY <2>2 DEF PageTypes
      <4>. QED
        BY <4>1
    <3>. HIDE DEF found
    <3>3. \A j \in Chips : cache[j].rows # Unread => cache'[j].rows # Unread
      BY <2>2, <3>1, <3>2
    <3>. QED
      BY <1>1, <2>1, <3>3
  <2>. QED
    BY <1>5, <2>3, <2>4
<1>6. ASSUME NEW c, setContributionFilter(c) \/ setTxnPage(c) PROVE FALSE
  BY <1>0, <1>6 DEF setContributionFilter, setTxnPage
<1>7. ASSUME NEW open, setIsCreateDialogOpen(open) \/ setIsDeleteDialogOpen(open)
      PROVE  kind' = kind /\ Redraw /\ (Read.rows # Unread => Read.rows' # Unread)
  <2>1. UNCHANGED <<kind, chip, cache>> /\ Redraw
    BY <1>7 DEF setIsCreateDialogOpen, setIsDeleteDialogOpen, dataVars, formState
  <2>. QED
    BY <1>1, <2>1
<1>8. ASSUME NEW s \in saving, ServerSaves(s) \/ Saved(s) \/ SaveMissed(s)
      PROVE  kind' = kind /\ Redraw /\ (Read.rows # Unread => Read.rows' # Unread)
  <2>1. UNCHANGED <<kind, chip>> /\ Redraw /\ invalidateQueries
    BY <1>8 DEF ServerSaves, Saved, SaveMissed, formState
  <2>2. \A k \in Chips : cache'[k].rows = cache[k].rows
    BY <2>1 DEF invalidateQueries, CacheTypes
  <2>. QED
    BY <1>1, <2>1, <2>2
<1>9. ASSUME NEW r \in removals, ServerRemoves(r) \/ Deleted(r) \/ RemovalMissed(r)
      PROVE  kind' = kind /\ Redraw /\ (Read.rows # Unread => Read.rows' # Unread)
  <2>1. UNCHANGED <<kind, chip>> /\ Redraw /\ invalidateQueries
    BY <1>9 DEF ServerRemoves, Deleted, RemovalMissed, formState
  <2>2. \A k \in Chips : cache'[k].rows = cache[k].rows
    BY <2>1 DEF invalidateQueries, CacheTypes
  <2>. QED
    BY <1>1, <2>1, <2>2
<1>10. ASSUME NEW e, Elsewhere(e) PROVE FALSE
  BY <1>10 DEF Elsewhere, formState
<1>. QED
  BY <1>2, <1>3, <1>4, <1>5, <1>6, <1>7, <1>8, <1>9, <1>10 DEF EntityNext

LEMMA TypedGoesOnlyThen ==
    ASSUME EntityInv, EntityInv', [EntityNext]_entityVars, typed, ~typed', wanted', known
    PROVE  \/ View' \in {"error", "gone"}
           \/ kind = "accounts" /\ {View, View'} = {"empty", "ready"}
           \/ kind = "goal" /\ View' = "skeleton"
<1>. USE DEF EntityInv
<1>0. ViewFacts /\ ViewFacts'
  BY ViewsOfPages, ViewsAfter DEF PageTypes
<1>1. FormPlace # "none"
  BY DEF FormOnScreen
<1>2. wanted /\ View \in {"empty", "ready"}
      /\ FormPlace = IF kind = "accounts" THEN View ELSE "dialog"
  BY <1>1 DEF FormPlace
<1>3. kind' = kind /\ Redraw /\ (Read.rows # Unread => Read.rows' # Unread)
  BY <1>2, ReadStays
<1>4. FormPlace' # FormPlace
  BY <1>3 DEF Redraw, formState
<1>5. CASE View' \in {"empty", "ready"}
  <2>1. FormPlace' = IF kind = "accounts" THEN View' ELSE "dialog"
    BY <1>3, <1>5 DEF FormPlace
  <2>2. kind = "accounts" /\ View' # View
    BY <1>2, <1>4, <2>1
  <2>. QED
    BY <1>2, <1>5, <2>2
<1>6. CASE View' = "skeleton"
  <2>1. Read.rows # Unread
    <3>1. EntityKey(chip) \in Chips /\ {} \in SUBSET Entities
      BY DEF PageTypes, EntityKey, Chips
    <3>2. Read.rows = Unread => Read.stale
      BY <3>1 DEF CacheTypes, Read
    <3>3. View # "gone"
      BY <1>2
    <3>. QED
      BY <1>0, <1>2, <3>1, <3>2, <3>3 DEF ViewFacts, StaleIsFetched
  <2>2. kind' = "goal"
    BY <1>0, <1>3, <1>6, <2>1 DEF ViewFacts
  <2>. QED
    BY <1>3, <1>6, <2>2
<1>. QED
  BY <1>0, <1>5, <1>6 DEF ViewFacts

\* What was typed into a form is lost only by the user's closing it, a save, a
\* fetch that failed, or where the page draws its form anew.
THEOREM TypedIsLostOnlyWhere == EntitySpec => TypedIsLostOnlyThen
<1>1. EntityInv /\ EntityInv' /\ [EntityNext]_entityVars
      => [typed /\ ~typed' =>
            \/ ~wanted'
            \/ View' \in {"error", "gone"} \/ ~known
            \/ kind = "accounts" /\ {View, View'} = {"empty", "ready"}
            \/ kind = "goal" /\ View' = "skeleton"]_entityVars
  BY TypedGoesOnlyThen
<1>. QED
  BY <1>1, EntityStart, EntityStep, PTL DEF EntitySpec, TypedIsLostOnlyThen

HIDE EntityAssumption DEF EntityAssumption

(***************************************************************************)
(* The dashboard                                                           *)
(*                                                                         *)
(* Its cards are sums over sets of rows, whose facts are SumLemmas'; what  *)
(* is left to the page is that every answer is kept under its own range    *)
(* and that one timer counts towards the total shown.                      *)
(***************************************************************************)

(***************************************************************************)
(* Arithmetic: dividing, taking the larger and the smaller, the last of    *)
(* finitely many numbers.                                                  *)
(***************************************************************************)
LEMMA Divided ==
    ASSUME NEW x \in Int, NEW d \in Nat \ {0}
    PROVE  x \div d \in Int /\ d * (x \div d) <= x /\ x < d * (x \div d) + d
OBVIOUS

LEMMA NotBelow ==
    ASSUME NEW x \in Nat, NEW d \in Nat \ {0}
    PROVE  x \div d \in Nat
OBVIOUS

LEMMA Cancel ==
    ASSUME NEW d \in Nat \ {0}, NEW x \in Int, NEW y \in Int, d * x <= d * y
    PROVE  x <= y
OBVIOUS

LEMMA MaxOfTwo ==
    ASSUME NEW a \in Int, NEW b \in Int
    PROVE  Max({a, b}) = IF a >= b THEN a ELSE b
BY DEF Max

LEMMA MinOfTwo ==
    ASSUME NEW a \in Int, NEW b \in Int
    PROVE  Min({a, b}) = IF a <= b THEN a ELSE b
BY DEF Min

LEMMA LastOf ==
    ASSUME NEW S, IsFiniteSet(S), S # {}, S \subseteq Int
    PROVE  Max(S) \in S /\ \A y \in S : y <= Max(S)
<1>. DEFINE Bad == {T \in SUBSET S : T # {} /\ ~ \E m \in T : \A y \in T : y <= m}
<1>1. Bad = {}
  <2>. SUFFICES ASSUME Bad # {} PROVE FALSE
    OBVIOUS
  <2>1. PICK T \in Bad : IsFiniteSet(T) /\ \A x \in T : T \ {x} \notin Bad
    <3>. Bad \subseteq SUBSET S
      OBVIOUS
    <3>. HIDE DEF Bad
    <3>. QED
      BY SmallestSubset
  <2>2. PICK x \in T : x \in Int
    OBVIOUS
  <2>3. CASE T = {x}
    BY <2>2, <2>3
  <2>4. CASE T # {x}
    <3>1. T \ {x} # {} /\ T \ {x} \in SUBSET S
      BY <2>4
    <3>2. PICK m \in T \ {x} : \A y \in T \ {x} : y <= m
      BY <2>1, <3>1
    <3>3. CASE x <= m
      <4>1. \A y \in T : y <= m
        BY <3>2, <3>3
      <4>. QED
        BY <3>2, <4>1
    <3>4. CASE ~(x <= m)
      <4>1. \A y \in T : y \in Int /\ m \in Int
        BY <3>2
      <4>2. \A y \in T : y <= x
        BY <2>2, <3>2, <3>4, <4>1
      <4>. QED
        BY <2>2, <4>2
    <3>. QED
      BY <3>3, <3>4
  <2>. QED
    BY <2>3, <2>4
<1>2. \E m \in S : \A y \in S : y <= m
  BY <1>1
<1>3. \E m \in S : \A y \in S : m >= y
  BY <1>2
<1>. QED
  BY <1>3 DEF Max

-----------------------------------------------------------------------------
(***************************************************************************)
(* What the queries answer, for one ledger and one period.                 *)
(***************************************************************************)
USE DashboardAssumption DEF DashboardAssumption

Ranges == {p \in Nat \X Nat : p[1] <= p[2]}

LEMMA Postings ==
    /\ Amount \in [Books -> Int] /\ Flow \in [Books -> Int]
    /\ \A S \in SUBSET Books :
          IsFiniteSet(S) /\ SumOf(Amount, S) \in Int /\ SumOf(Flow, S) \in Int
<1>1. Amount \in [Books -> Int] /\ Flow \in [Books -> Int]
  BY DEF Amount, Flow
<1>2. ASSUME NEW S \in SUBSET Books
      PROVE  IsFiniteSet(S) /\ SumOf(Amount, S) \in Int /\ SumOf(Flow, S) \in Int
  <2>1. IsFiniteSet(S)
    BY FS_Subset
  <2>2. \A t \in S : Amount[t] \in Int /\ Flow[t] \in Int
    BY <1>1
  <2>. QED
    BY <2>1, <2>2, SumType
<1>. QED
  BY <1>1, <1>2

LEMMA ReadsBooks ==
    ASSUME NEW L \in SUBSET Books, NEW p
    PROVE  /\ InPeriod(L, p) \subseteq Books /\ Spending(L, p) \subseteq Books
           /\ GetAccountBalances(L, p).expense \in Int
           /\ GetBudgetHealth(L, p).spent \in Int
<1>1. /\ InPeriod(L, p) \in SUBSET Books /\ Spending(L, p) \in SUBSET Books
      /\ {t \in Spending(L, p) : ~t.closed} \in SUBSET Books
  BY DEF InPeriod, Spending
<1>. QED
  BY <1>1, Postings DEF GetAccountBalances, GetBudgetHealth

\* The categories of what was spent, each with its total, and what has none.
LEMMA ByCategory ==
    ASSUME NEW L \in SUBSET Books, NEW p, NEW s, s = GetSpendByCategory(L, p),
           NEW S, S = Spending(L, p)
    PROVE  /\ IsFiniteSet(DOMAIN s) /\ \A c \in DOMAIN s : s[c] \in Int
           /\ SumOf(Amount, S) = SumOf(s, DOMAIN s)
                                  + SumOf(Amount, {t \in S : t.category = NoCategory})
<1>. DEFINE C == {t.category : t \in S} \ {NoCategory}
            A == {t \in S : t.category # NoCategory}
            B == {t \in S : t.category = NoCategory}
            class == [t \in A |-> t.category]
<1>1. S \in SUBSET Books /\ A \in SUBSET Books /\ B \in SUBSET Books
  BY ReadsBooks
<1>2. DOMAIN s = C /\ \A c \in C : s[c] = SumOf(Amount, {t \in S : t.category = c})
  BY DEF GetSpendByCategory
<1>3. \A c \in C : {t \in S : t.category = c} = {t \in A : class[t] = c}
  OBVIOUS
<1>4. IsFiniteSet(C)
  <2>1. class \in Surjection(A, C)
    BY DEF Surjection
  <2>2. IsFiniteSet(A)
    BY <1>1, Postings
  <2>. HIDE DEF C, A, class
  <2>. QED
    BY <2>1, <2>2, FS_Surjection
<1>5. \A c \in C : s[c] \in Int
  <2>. SUFFICES ASSUME NEW c \in C PROVE s[c] \in Int
    OBVIOUS
  <2>. DEFINE D == {t \in S : t.category = c}
  <2>1. D \in SUBSET Books /\ s[c] = SumOf(Amount, D)
    BY <1>1, <1>2
  <2>. HIDE DEF C, D
  <2>. QED
    BY <2>1, Postings
<1>6. SumOf(Amount, A) = SumOf(s, C)
  <2>1. IsFiniteSet(A) /\ \A t \in A : Amount[t] \in Int
    BY <1>1, Postings
  <2>2. \A t \in A : class[t] \in C
    OBVIOUS
  <2>3. \A c \in C : s[c] = SumOf(Amount, {t \in A : class[t] = c})
    BY <1>2, <1>3
  <2>. HIDE DEF C, A, class
  <2>. QED
    BY <1>4, <2>1, <2>2, <2>3, SumByClass
<1>7. SumOf(Amount, S) = SumOf(Amount, A) + SumOf(Amount, B)
  <2>1. A \cap B = {} /\ A \cup B = S
    OBVIOUS
  <2>2. IsFiniteSet(A) /\ IsFiniteSet(B) /\ \A t \in A \cup B : Amount[t] \in Int
    BY <1>1, Postings
  <2>. HIDE DEF A, B
  <2>. QED
    BY <2>1, <2>2, SumUnion
<1>. QED
  BY <1>2, <1>4, <1>5, <1>6, <1>7

\* Open and closed accounts.
LEMMA ByAccount ==
    ASSUME NEW L \in SUBSET Books, NEW p, NEW S, S = Spending(L, p)
    PROVE  SumOf(Amount, S) = GetAccountBalances(L, p).expense
                              + SumOf(Amount, {t \in S : t.closed})
<1>. DEFINE A == {t \in S : ~t.closed}
            B == {t \in S : t.closed}
<1>1. A \cap B = {} /\ A \cup B = S
  OBVIOUS
<1>2. S \in SUBSET Books /\ A \in SUBSET Books /\ B \in SUBSET Books
  BY ReadsBooks
<1>3. IsFiniteSet(A) /\ IsFiniteSet(B) /\ \A t \in A \cup B : Amount[t] \in Int
  BY <1>2, Postings
<1>4. GetAccountBalances(L, p).expense = SumOf(Amount, A)
  BY DEF GetAccountBalances
<1>. HIDE DEF A, B
<1>5. SumOf(Amount, A \cup B) = SumOf(Amount, A) + SumOf(Amount, B)
  BY <1>1, <1>3, SumUnion
<1>. QED
  BY <1>1, <1>4, <1>5 DEF B

\* The last month of the trend has everything.
LEMMA TrendEnds ==
    ASSUME NEW L \in SUBSET Books, NEW p, NEW trend, trend = GetNetWorthTrend(L, p),
           trend # <<>>
    PROVE  trend[Max(DOMAIN trend)] = SumOf(Flow, InPeriod(L, p))
<1>. DEFINE S == InPeriod(L, p)
            M == MonthsOf(S)
            last == Max(M)
            month == [t \in S |-> Month(t.at \div 2)]
<1>1. S \in SUBSET Books
  BY ReadsBooks
<1>2. \A t \in S : Month(t.at \div 2) \in Int
  <2>. SUFFICES ASSUME NEW t \in S PROVE Month(t.at \div 2) \in Int
    OBVIOUS
  <2>1. t.at \in Int
    BY <1>1
  <2>2. t.at \div 2 \in Int
    BY <2>1, Divided
  <2>. QED
    BY <2>2, Divided DEF Month
<1>3. DOMAIN trend = M /\ M \subseteq Int
  BY <1>2 DEF GetNetWorthTrend, MonthsOf
<1>4. IsFiniteSet(M)
  <2>1. month \in Surjection(S, M)
    BY DEF Surjection, MonthsOf
  <2>2. IsFiniteSet(S)
    BY <1>1, Postings
  <2>. HIDE DEF S, M, month
  <2>. QED
    BY <2>1, <2>2, FS_Surjection
<1>5. M # {}
  <2>. SUFFICES ASSUME M = {} PROVE trend = <<>>
    OBVIOUS
  <2>1. trend = [m \in M |-> SumOf(Flow, {t \in S : Month(t.at \div 2) <= m})]
    BY DEF GetNetWorthTrend
  <2>. QED
    BY <2>1
<1>6. last \in M /\ \A m \in M : m <= last
  <2>. HIDE DEF M
  <2>. QED
    BY <1>3, <1>4, <1>5, LastOf
<1>7. {t \in S : Month(t.at \div 2) <= last} = S
  BY <1>6 DEF MonthsOf
<1>8. trend[last] = SumOf(Flow, {t \in S : Month(t.at \div 2) <= last})
  BY <1>6 DEF GetNetWorthTrend
<1>. QED
  BY <1>3, <1>7, <1>8
-----------------------------------------------------------------------------
(***************************************************************************)
(* What the page makes of an answer.                                       *)
(***************************************************************************)
LEMMA Rounded ==
    ASSUME NEW a \in Int, NEW b \in Nat \ {0}
    PROVE  /\ Round(a, b) \in Int
           /\ 200 * a - b < 2 * b * Round(a, b) /\ 2 * b * Round(a, b) <= 200 * a + b
<1>. DEFINE x == 200 * a + b
            d == 2 * b
<1>1. x \in Int /\ d \in Nat \ {0}
  OBVIOUS
<1>2. Round(a, b) = x \div d
  BY DEF Round
<1>3. x \div d \in Int /\ d * (x \div d) <= x /\ x < d * (x \div d) + d
  <2>. HIDE DEF x, d
  <2>. QED
    BY <1>1, Divided
<1>. QED
  BY <1>2, <1>3

\* Shares of a total, each rounded, add up to the whole within half a percent
\* for each.
LEMMA SharesOf ==
    ASSUME NEW s, NEW A, IsFiniteSet(A), \A c \in A : s[c] \in Int,
           NEW b, b = SumOf(s, A), b > 0,
           NEW pct, \A c \in A : pct[c] = Round(s[c], b)
    PROVE  2 * SumOf(pct, A) \in (200 - Cardinality(A))..(200 + Cardinality(A))
<1>. DEFINE Near(D) == /\ 2 * b * SumOf(pct, D) <= 200 * SumOf(s, D) + b * Cardinality(D)
                       /\ 2 * b * SumOf(pct, D) >= 200 * SumOf(s, D) - b * Cardinality(D)
            Bad == {D \in SUBSET A : ~Near(D)}
<1>1. b \in Nat \ {0}
  BY SumType
<1>2. \A c \in A : /\ pct[c] \in Int
                   /\ 200 * s[c] - b < 2 * b * pct[c]
                   /\ 2 * b * pct[c] <= 200 * s[c] + b
  <2>. SUFFICES ASSUME NEW c \in A
                PROVE  /\ pct[c] \in Int
                       /\ 200 * s[c] - b < 2 * b * pct[c]
                       /\ 2 * b * pct[c] <= 200 * s[c] + b
    OBVIOUS
  <2>1. s[c] \in Int /\ pct[c] = Round(s[c], b)
    OBVIOUS
  <2>. QED
    BY ONLY <1>1, <2>1, Rounded
<1>3. Near(A)
  <2>. SUFFICES ASSUME Bad # {} PROVE FALSE
    OBVIOUS
  <2>1. PICK D \in Bad : IsFiniteSet(D) /\ \A c \in D : D \ {c} \notin Bad
    <3>. Bad \subseteq SUBSET A
      OBVIOUS
    <3>. HIDE DEF Bad
    <3>. QED
      BY SmallestSubset
  <2>2. D \subseteq A /\ ~Near(D)
    OBVIOUS
  <2>3. D # {}
    <3>. SUFFICES ASSUME D = {} PROVE Near(D)
      BY <2>2
    <3>1. SumOf(pct, D) = 0 /\ SumOf(s, D) = 0 /\ Cardinality(D) = 0
      BY SumEmpty, FS_EmptySet
    <3>. QED
      BY <1>1, <3>1
  <2>4. PICK c \in D : TRUE
    BY <2>3
  <2>. DEFINE E == D \ {c}
  <2>5. Near(E)
    BY <2>1, <2>2, <2>4
  <2>6. /\ SumOf(pct, D) = pct[c] + SumOf(pct, E)
        /\ SumOf(s, D) = s[c] + SumOf(s, E)
    <3>1. \A e \in D : pct[e] \in Int /\ s[e] \in Int
      BY <1>2, <2>2
    <3>. HIDE DEF Bad
    <3>. QED
      BY <2>1, <2>4, <3>1, SumRest
  <2>7. IsFiniteSet(E) /\ Cardinality(D) = Cardinality(E) + 1 /\ Cardinality(E) \in Nat
    <3>1. IsFiniteSet(E) /\ Cardinality(E) = Cardinality(D) - 1
      BY <2>1, <2>4, FS_RemoveElement
    <3>2. Cardinality(D) \in Nat /\ Cardinality(E) \in Nat
      BY <2>1, <3>1, FS_CardinalityType
    <3>. HIDE DEF E
    <3>. QED
      BY <3>1, <3>2
  <2>8. SumOf(pct, E) \in Int /\ SumOf(s, E) \in Int
    <3>1. \A e \in E : pct[e] \in Int /\ s[e] \in Int
      BY <1>2, <2>2
    <3>. HIDE DEF E
    <3>. QED
      BY <2>7, <3>1, SumType
  <2>9. /\ pct[c] \in Int /\ s[c] \in Int
        /\ 200 * s[c] - b < 2 * b * pct[c] /\ 2 * b * pct[c] <= 200 * s[c] + b
    BY <1>2, <2>2
  <2>10. ASSUME NEW P \in Int, NEW p \in Int, NEW S \in Int, NEW a \in Int, NEW n \in Nat,
                200 * a - b < 2 * b * p, 2 * b * p <= 200 * a + b,
                2 * b * P <= 200 * S + b * n, 2 * b * P >= 200 * S - b * n
         PROVE  /\ 2 * b * (p + P) <= 200 * (a + S) + b * (n + 1)
                /\ 2 * b * (p + P) >= 200 * (a + S) - b * (n + 1)
    <3>1. 2 * b * (p + P) = 2 * b * p + 2 * b * P /\ b * (n + 1) = b * n + b
      BY <1>1
    <3>2. 2 * b * p \in Int /\ 2 * b * P \in Int /\ b * n \in Int
      BY <1>1
    <3>. QED
      BY <1>1, <2>10, <3>1, <3>2
  <2>11. Near(D)
    <3>. HIDE DEF E, Bad
    <3>. QED
      BY <2>5, <2>6, <2>7, <2>8, <2>9, <2>10
  <2>. QED
    BY <2>2, <2>11
<1>4. SumOf(pct, A) \in Int /\ Cardinality(A) \in Nat
  BY <1>2, SumType, FS_CardinalityType
<1>5. ASSUME NEW P \in Int, NEW n \in Nat,
             2 * b * P <= 200 * b + b * n, 2 * b * P >= 200 * b - b * n
      PROVE  2 * P \in (200 - n)..(200 + n)
  <2>1. b * (2 * P) <= b * (200 + n) /\ b * (200 - n) <= b * (2 * P)
    BY <1>1, <1>5
  <2>2. 2 * P <= 200 + n /\ 200 - n <= 2 * P
    BY <1>1, <2>1, Cancel
  <2>. QED
    BY <2>2
<1>. HIDE DEF Bad
<1>. QED
  BY <1>3, <1>4, <1>5

LEMMA Overspent ==
    ASSUME NEW s \in Int, NEW b \in Nat \ {0}, s > b
    PROVE  Min({Round(s, b), 100}) = 100
<1>. DEFINE r == Round(s, b)
<1>1. r \in Int /\ 200 * s - b < 2 * b * r
  BY Rounded
<1>2. r >= 100
  <2>. SUFFICES ASSUME r <= 99 PROVE FALSE
    BY <1>1
  <2>1. b * r <= b * 99 /\ b * r \in Int
    BY <1>1
  <2>2. 2 * b * r = 2 * (b * r)
    BY <1>1
  <2>. HIDE DEF r
  <2>. QED
    BY <1>1, <2>1, <2>2
<1>. QED
  BY <1>1, <1>2, MinOfTwo
(***************************************************************************)
(* An answer to one request: its figures are the asked-for period's, they  *)
(* agree when there was one ledger, and the page shows them truly.         *)
(***************************************************************************)
Agrees(x) ==
    LET S == Spending(x.booked, x.for) IN
    x.calm =>
        /\ x.budget.spent = SumOf(x.categories, DOMAIN x.categories)
                             + SumOf(Amount, {t \in S : t.category = NoCategory})
        /\ x.budget.spent = x.flow.expense + SumOf(Amount, {t \in S : t.closed})
        /\ x.trend # <<>> => x.trend[Max(DOMAIN x.trend)]
                                = SumOf(Flow, InPeriod(x.booked, x.for))

Whole(x) ==
    LET sum == SumOf(categories(x), DOMAIN categories(x))
        n == Cardinality(DOMAIN categories(x)) IN
    IF SumOf(x.categories, DOMAIN x.categories) > 0
    THEN 2 * sum \in (200 - n)..(200 + n) ELSE sum = 0

Said(x) == x.budget.scaled > 0 /\ BudgetHealthCard(x.budget).isOver
           => BudgetHealthCard(x.budget).exceeded

Honest(x) == Agrees(x) /\ Whole(x) /\ Said(x) /\ x.flow.expense \in Int

LEMMA AnswersAgree ==
    ASSUME NEW p, NEW seen \in SUBSET (SUBSET Books), NEW x \in GetDashboard(p, seen)
    PROVE  Agrees(x)
<1>. SUFFICES ASSUME x.calm PROVE Agrees(x)
  BY DEF Agrees
<1>1. PICK L1 \in seen, L2 \in seen, L3 \in seen, L4 \in seen :
        x = [for |-> p, calm |-> Cardinality(seen) = 1, booked |-> L1,
             trend |-> GetNetWorthTrend(L1, p), categories |-> GetSpendByCategory(L2, p),
             budget |-> GetBudgetHealth(L3, p), flow |-> GetAccountBalances(L4, p)]
  BY DEF GetDashboard
<1>2. L2 = L1 /\ L3 = L1 /\ L4 = L1
  <2>1. IsFiniteSet(seen)
    BY FS_SUBSET, FS_Subset
  <2>2. Cardinality(seen) = 1
    BY <1>1
  <2>3. \E L : seen = {L}
    BY <2>1, <2>2, FS_Singleton
  <2>. QED
    BY <2>3
<1>3. /\ x.for = p /\ x.booked = L1 /\ x.trend = GetNetWorthTrend(L1, p)
      /\ x.categories = GetSpendByCategory(L1, p)
      /\ x.budget = GetBudgetHealth(L1, p) /\ x.flow = GetAccountBalances(L1, p)
  BY <1>1, <1>2
<1>4. L1 \in SUBSET Books
  BY <1>1
<1>5. x.budget.spent = SumOf(Amount, Spending(L1, p))
  BY <1>3 DEF GetBudgetHealth
<1>. DEFINE S == Spending(L1, p)
<1>6. SumOf(Amount, S) = SumOf(x.categories, DOMAIN x.categories)
                         + SumOf(Amount, {t \in S : t.category = NoCategory})
  BY <1>3, <1>4, ByCategory
<1>7. SumOf(Amount, S) = x.flow.expense + SumOf(Amount, {t \in S : t.closed})
  BY <1>3, <1>4, ByAccount
<1>8. x.trend # <<>> => x.trend[Max(DOMAIN x.trend)] = SumOf(Flow, InPeriod(L1, p))
  BY <1>3, <1>4, TrendEnds
<1>9. S = Spending(x.booked, x.for) /\ InPeriod(L1, p) = InPeriod(x.booked, x.for)
  BY <1>3
<1>. HIDE DEF S
<1>. QED
  BY <1>5, <1>6, <1>7, <1>8, <1>9 DEF Agrees, S

LEMMA SharesAreWhole ==
    ASSUME NEW p, NEW seen \in SUBSET (SUBSET Books), NEW x \in GetDashboard(p, seen)
    PROVE  Whole(x)
<1>1. PICK L \in SUBSET Books : x.categories = GetSpendByCategory(L, p)
  BY DEF GetDashboard
<1>. DEFINE s == x.categories
            A == DOMAIN s
            b == SumOf(s, A)
            pct == categories(x)
<1>2. IsFiniteSet(A) /\ \A c \in A : s[c] \in Int
  BY <1>1, ByCategory
<1>3. DOMAIN pct = A /\ \A c \in A : pct[c] = IF b > 0 THEN Round(s[c], b) ELSE 0
  BY DEF categories
<1>4. CASE b > 0
  <2>1. \A c \in A : pct[c] = Round(s[c], b)
    BY <1>3, <1>4
  <2>. HIDE DEF s, A, b, pct
  <2>2. 2 * SumOf(pct, A) \in (200 - Cardinality(A))..(200 + Cardinality(A))
    BY <1>2, <1>4, <2>1, SharesOf DEF b
  <2>. QED
    BY <1>3, <1>4, <2>2 DEF Whole, s, A, b, pct
<1>5. CASE ~(b > 0)
  <2>. DEFINE zero == [c \in A |-> s[c] - s[c]]
  <2>1. SumOf(pct, A) = SumOf(zero, A)
    <3>1. \A c \in A : pct[c] = zero[c]
      BY <1>2, <1>3, <1>5
    <3>. HIDE DEF s, A, b, pct, zero
    <3>. QED
      BY <1>2, <3>1, SumSame
  <2>2. SumOf(zero, A) = SumOf(s, A) - SumOf(s, A)
    <3>1. \A c \in A : s[c] \in Int /\ s[c] \in Int /\ zero[c] = s[c] - s[c]
      BY <1>2
    <3>. HIDE DEF s, A, b, pct, zero
    <3>. QED
      BY <1>2, <3>1, SumDifference
  <2>3. SumOf(s, A) \in Int
    <3>. HIDE DEF s, A, b, pct
    <3>. QED
      BY <1>2, SumType
  <2>4. SumOf(pct, A) = 0
    <3>. HIDE DEF s, A, b, pct, zero
    <3>. QED
      BY <2>1, <2>2, <2>3
  <2>. HIDE DEF s, A, b, pct
  <2>. QED
    BY <1>3, <1>5, <2>4 DEF Whole, s, A, b, pct
<1>. QED
  BY <1>4, <1>5

LEMMA AnswersAreHonest ==
    ASSUME NEW p, NEW seen \in SUBSET (SUBSET Books), NEW x \in GetDashboard(p, seen)
    PROVE  Honest(x) /\ x.for = p
<1>1. PICK L3 \in SUBSET Books, L4 \in SUBSET Books :
        x.budget = GetBudgetHealth(L3, p) /\ x.flow = GetAccountBalances(L4, p)
  BY DEF GetDashboard
<1>2. x.for = p
  BY DEF GetDashboard
<1>3. x.flow.expense \in Int /\ x.budget.spent \in Int
  BY <1>1, ReadsBooks
<1>4. x.budget.scaled \in Int
  <2>. DEFINE S == Spending(L3, p)
              month == [t \in S |-> Month(t.at \div 2)]
  <2>1. month \in Surjection(S, MonthsOf(S))
    BY DEF Surjection, MonthsOf
  <2>2. IsFiniteSet(S)
    BY ReadsBooks, Postings
  <2>. HIDE DEF month
  <2>3. Cardinality(MonthsOf(S)) \in Nat
    BY <2>1, <2>2, FS_Surjection, FS_CardinalityType
  <2>. HIDE DEF S
  <2>4. Max({1, Cardinality(MonthsOf(S))}) \in Int
    BY <2>3, MaxOfTwo
  <2>5. x.budget.scaled = MonthlyBudget * Max({1, Cardinality(MonthsOf(S))})
    BY <1>1 DEF GetBudgetHealth, S
  <2>. QED
    BY <2>4, <2>5
<1>5. Said(x)
  <2>. DEFINE b == x.budget.scaled
              s == x.budget.spent
  <2>. SUFFICES ASSUME b > 0, s > b PROVE BudgetHealthCard(x.budget).exceeded
    BY DEF Said, BudgetHealthCard
  <2>. HIDE DEF b, s
  <2>1. b \in Nat \ {0} /\ s \in Int
    BY <1>3, <1>4 DEF b, s
  <2>2. Min({Round(s, b), 100}) = 100
    BY <2>1, Overspent
  <2>. DEFINE pct == IF b > 0 THEN Min({Round(s, b), 100}) ELSE 0
  <2>3. BudgetHealthCard(x.budget).exceeded = (pct > 85 /\ pct >= 100)
    BY DEF BudgetHealthCard, b, s
  <2>4. pct = 100
    BY <2>2
  <2>5. pct > 85 /\ pct >= 100
    BY <2>4
  <2>. HIDE DEF pct
  <2>. QED
    BY <2>3, <2>5, Zenon
<1>. QED
  BY <1>2, <1>3, <1>5, AnswersAgree, SharesAreWhole DEF Honest
-----------------------------------------------------------------------------
(***************************************************************************)
(* The page: its range, its requests, the cache, the count.  Every answer  *)
(* held is one the server gives to its own key, and the count runs towards *)
(* the total of the figures shown or stands at it.                         *)
(***************************************************************************)
RangeTypes ==
    /\ booked \in SUBSET Books /\ moves \in 0..MaxMoves
    /\ period \in Ranges /\ savedPeriod \in Ranges \cup {NoPeriod}
    /\ preset \in DOMAIN Presets \cup {"custom"} /\ storage \in BOOLEAN

Request == [for : Ranges, seen : SUBSET (SUBSET Books)]
RequestsSee == requests \subseteq Request /\ \A r \in requests : r.seen # {}

AnswersAreServed ==
    \A k \in DOMAIN answers :
        \E seen \in SUBSET (SUBSET Books) : answers[k] \in GetDashboard(k, seen)

Running(e) == \E n \in Nat : e.timers = {[target |-> e.target, ticks |-> n]}
Stands(e) == e.timers = {} /\ e.value = e.target
CountTypes == expense \in [target : Int, value : Int, timers : SUBSET [target : Int, ticks : Nat]]
CountRuns == expense.target = totalExpense /\ (Running(expense) \/ Stands(expense))

DashInv == /\ RangeTypes /\ RequestsSee /\ AnswersAreServed
           /\ CountTypes /\ CountRuns /\ PickIsKept

LEMMA PresetDates ==
    ASSUME NEW id \in DOMAIN Presets
    PROVE  presetDates(Presets[id]) \in Ranges
<1>. DEFINE n == Presets[id]
            last == DaysPerMonth * (Month(Today) + 1)
<1>1. Month(Today) \in Nat
  BY NotBelow DEF Month
<1>2. last \in Nat \ {0}
  BY <1>1
<1>3. DaysPerMonth * n \in Nat \ {0}
  OBVIOUS
<1>. HIDE DEF last
<1>4. presetDates(n) = <<Max({1, last - DaysPerMonth * n + 1}), last>>
  BY DEF presetDates, last
<1>5. last - DaysPerMonth * n + 1 \in Int /\ last - DaysPerMonth * n + 1 <= last
  BY <1>2, <1>3
<1>6. Max({1, last - DaysPerMonth * n + 1}) \in Nat /\ Max({1, last - DaysPerMonth * n + 1}) <= last
  BY <1>2, <1>5, MaxOfTwo
<1>. QED
  BY <1>2, <1>4, <1>6 DEF Ranges

\* The total shown is a number.
LEMMA TotalIsInt ==
    ASSUME NEW held, NEW p,
           \A k \in DOMAIN held :
               \E seen \in SUBSET (SUBSET Books) : held[k] \in GetDashboard(k, seen)
    PROVE  p \in DOMAIN held => held[p].flow.expense \in Int
<1>. SUFFICES ASSUME p \in DOMAIN held PROVE held[p].flow.expense \in Int
  OBVIOUS
<1>1. PICK seen \in SUBSET (SUBSET Books) : held[p] \in GetDashboard(p, seen)
  OBVIOUS
<1>. QED
  BY <1>1, AnswersAreHonest DEF Honest

LEMMA Counting ==
    ASSUME CountTypes, Running(expense) \/ Stands(expense), NEW to \in Int, useAnimatedCount(to)
    PROVE  /\ CountTypes' /\ expense'.target = to
           /\ Running(expense') \/ Stands(expense')
<1>1. CASE to = expense.target
  BY <1>1 DEF useAnimatedCount, CountTypes
<1>2. CASE to # expense.target
  <2>1. expense' = [target |-> to, value |-> 0, timers |-> {[target |-> to, ticks |-> 0]}]
    BY <1>2 DEF useAnimatedCount
  <2>2. CountTypes' /\ expense'.target = to
    BY <2>1 DEF CountTypes
  <2>. QED
    BY <2>1, <2>2 DEF Running
<1>. QED
  BY <1>1, <1>2

LEMMA DashStart == DashInit => DashInv
<1>. SUFFICES ASSUME DashInit PROVE DashInv
  OBVIOUS
<1>. USE DEF DashInit
<1>1. period \in Ranges
  BY PresetDates
<1>2. RangeTypes
  BY <1>1 DEF RangeTypes
<1>3. RequestsSee /\ AnswersAreServed
  BY DEF RequestsSee, AnswersAreServed
<1>4. totalExpense = 0
  BY DEF totalExpense, Figures
<1>5. CountTypes /\ CountRuns
  BY <1>4 DEF CountTypes, CountRuns, JustMounted, Running
<1>. QED
  BY <1>2, <1>3, <1>5 DEF DashInv, PickIsKept

\* A request asked for by an observer has seen the ledger of its moment.
LEMMA AskSeesTheLedger ==
    ASSUME NEW p \in Ranges, NEW sent \in SUBSET Request, NEW held, booked \in SUBSET Books,
           \A r \in sent : r.seen # {}
    PROVE  Ask(p, sent, held) \subseteq Request /\ \A r \in Ask(p, sent, held) : r.seen # {}
<1>1. [for |-> p, seen |-> {booked}] \in Request
  BY DEF Request
<1>2. Ask(p, sent, held) \in {sent, sent \cup {[for |-> p, seen |-> {booked}]}}
  BY DEF Ask
<1>. HIDE DEF Ask
<1>. QED
  BY <1>1, <1>2
-----------------------------------------------------------------------------
(***************************************************************************)
(* The steps.                                                              *)
(***************************************************************************)
LEMMA ClerkLoadsStep == ASSUME DashInv, ClerkLoads PROVE DashInv'
<1>. USE DEF ClerkLoads, filterVars
<1>1. requests' = Ask(period, requests, answers)
  OBVIOUS
<1>2. RequestsSee'
  BY <1>1, AskSeesTheLedger DEF DashInv, RequestsSee, RangeTypes
<1>3. RangeTypes' /\ AnswersAreServed' /\ PickIsKept'
  BY DEF DashInv, RangeTypes, AnswersAreServed, PickIsKept
<1>4. CountTypes' /\ CountRuns'
  BY DEF DashInv, CountTypes, CountRuns, totalExpense, Figures
<1>. QED
  BY <1>2, <1>3, <1>4 DEF DashInv

\* A range that is picked, saved or not.
LEMMA PickedStep ==
    ASSUME DashInv, NEW p \in Ranges, NEW id \in DOMAIN Presets \cup {"custom"},
           id # "custom" => p = presetDates(Presets[id]),
           applyRange(p, id), Picked
    PROVE  DashInv'
<1>. USE DEF applyRange, Picked, Moved
<1>1. RangeTypes'
  BY DEF DashInv, RangeTypes
<1>2. RequestsSee'
  <2>1. requests' = requests \/ requests' = Ask(period', requests, answers)
    OBVIOUS
  <2>2. Ask(p, requests, answers) \subseteq Request
        /\ \A r \in Ask(p, requests, answers) : r.seen # {}
    BY AskSeesTheLedger DEF DashInv, RequestsSee, RangeTypes
  <2>3. period' = p
    OBVIOUS
  <2>. HIDE DEF Picked, applyRange
  <2>. QED
    BY <2>1, <2>2, <2>3 DEF DashInv, RequestsSee
<1>3. AnswersAreServed'
  BY DEF DashInv, AnswersAreServed
<1>4. CountTypes' /\ CountRuns'
  <2>1. totalExpense' \in Int
    <3>1. period' \in DOMAIN answers' => answers'[period'].flow.expense \in Int
      BY <1>3, TotalIsInt DEF AnswersAreServed
    <3>. QED
      BY <3>1 DEF totalExpense, Figures, queryKey
  <2>2. useAnimatedCount(totalExpense')
    OBVIOUS
  <2>3. CountTypes /\ (Running(expense) \/ Stands(expense))
    BY DEF DashInv, CountRuns
  <2>. QED
    BY <2>1, <2>2, <2>3, Counting DEF CountRuns
<1>5. PickIsKept'
  BY DEF PickIsKept
<1>. QED
  BY <1>1, <1>2, <1>3, <1>4, <1>5 DEF DashInv

LEMMA PickPresetStep == ASSUME DashInv, PickPreset PROVE DashInv'
<1>1. PICK id \in DOMAIN Presets : applyPreset(id) /\ Picked
  BY DEF PickPreset
<1>. QED
  BY <1>1, PickedStep, PresetDates DEF applyPreset

LEMMA PickDayStep == ASSUME DashInv, PickDay PROVE DashInv'
<1>1. PICK d \in 1..Today : handlePickerChange(Clicked(d)) /\ Picked
  BY DEF PickDay
<1>2. period \in Ranges
  BY DEF DashInv, RangeTypes
<1>3. Clicked(d) \in Ranges
  <2>1. period[1] \in Nat /\ period[2] \in Nat /\ period[1] <= period[2] /\ d \in Nat
    BY <1>2 DEF Ranges
  <2>2. CASE d \in {period[1], period[2]} \/ d >= period[1]
    <3>1. Clicked(d) \in {<<d, d>>, <<period[1], d>>} /\ d >= period[1]
      BY <2>1, <2>2 DEF Clicked
    <3>. QED
      BY <2>1, <3>1 DEF Ranges
  <2>3. CASE ~(d \in {period[1], period[2]} \/ d >= period[1])
    <3>1. Clicked(d) = <<d, period[2]>> /\ d <= period[2]
      BY <2>1, <2>3 DEF Clicked
    <3>. QED
      BY <2>1, <3>1 DEF Ranges
  <2>. QED
    BY <2>2, <2>3
<1>. QED
  BY <1>1, <1>3, PickedStep DEF handlePickerChange

LEMMA ReopenStep == ASSUME DashInv, NEW reload \in BOOLEAN, Reopen(reload) PROVE DashInv'
<1>. USE DEF Reopen, Moved
<1>1. RangeTypes'
  <2>1. period' \in Ranges
    BY PresetDates DEF DashInv, RangeTypes
  <2>. QED
    BY <2>1 DEF DashInv, RangeTypes
<1>2. RequestsSee'
  <2>. DEFINE sent == IF reload THEN {} ELSE requests
  <2>1. sent \in SUBSET Request /\ \A r \in sent : r.seen # {}
    BY DEF DashInv, RequestsSee
  <2>2. requests' = Ask(period', sent, answers')
    OBVIOUS
  <2>3. period' \in Ranges /\ booked \in SUBSET Books
    BY <1>1 DEF DashInv, RangeTypes
  <2>. HIDE DEF sent
  <2>4. requests' \subseteq Request /\ \A r \in requests' : r.seen # {}
    BY <2>1, <2>2, <2>3, AskSeesTheLedger
  <2>. QED
    BY <2>4 DEF RequestsSee
<1>3. AnswersAreServed'
  BY DEF DashInv, AnswersAreServed
<1>4. CountTypes' /\ CountRuns'
  <2>1. totalExpense' \in Int
    <3>1. period' \in DOMAIN answers' => answers'[period'].flow.expense \in Int
      BY <1>3, TotalIsInt DEF AnswersAreServed
    <3>. QED
      BY <3>1 DEF totalExpense, Figures, queryKey
  <2>2. expense' = [target |-> totalExpense', value |-> 0,
                    timers |-> {[target |-> totalExpense', ticks |-> 0]}]
    OBVIOUS
  <2>. QED
    BY <2>1, <2>2 DEF CountTypes, CountRuns, Running
<1>5. PickIsKept'
  BY DEF PickIsKept
<1>. QED
  BY <1>1, <1>2, <1>3, <1>4, <1>5 DEF DashInv

LEMMA AnsweredStep == ASSUME DashInv, Answered PROVE DashInv'
<1>0. PICK r \in requests : \E x \in GetDashboard(r.for, r.seen) :
        /\ requests' = requests \ {r}
        /\ answers' = [j \in DOMAIN answers \cup {r.for} |->
                          IF j = r.for THEN x ELSE answers[j]]
        /\ UNCHANGED <<booked, moves, filterVars, clerk>>
        /\ useAnimatedCount(totalExpense')
  BY DEF Answered, queryKey
<1>1. PICK x \in GetDashboard(r.for, r.seen) :
        /\ requests' = requests \ {r}
        /\ answers' = [j \in DOMAIN answers \cup {r.for} |->
                          IF j = r.for THEN x ELSE answers[j]]
        /\ UNCHANGED <<booked, moves, filterVars, clerk>>
        /\ useAnimatedCount(totalExpense')
  BY <1>0
<1>2. RangeTypes' /\ PickIsKept' /\ RequestsSee'
  BY <1>1 DEF DashInv, RangeTypes, PickIsKept, RequestsSee, filterVars
<1>3. AnswersAreServed'
  <2>. SUFFICES ASSUME NEW k \in DOMAIN answers'
                PROVE  \E seen \in SUBSET (SUBSET Books) : answers'[k] \in GetDashboard(k, seen)
    BY DEF AnswersAreServed
  <2>1. r.seen \in SUBSET (SUBSET Books)
    BY <1>1 DEF DashInv, RequestsSee, Request
  <2>2. CASE k = r.for
    BY <1>1, <2>1, <2>2
  <2>3. CASE k # r.for
    <3>1. k \in DOMAIN answers /\ answers'[k] = answers[k]
      BY <1>1, <2>3
    <3>. QED
      BY <3>1 DEF DashInv, AnswersAreServed
  <2>. QED
    BY <2>2, <2>3
<1>4. CountTypes' /\ CountRuns'
  <2>1. totalExpense' \in Int
    <3>1. period' \in DOMAIN answers' => answers'[period'].flow.expense \in Int
      BY <1>3, TotalIsInt DEF AnswersAreServed
    <3>. QED
      BY <3>1 DEF totalExpense, Figures, queryKey
  <2>2. CountTypes /\ (Running(expense) \/ Stands(expense))
    BY DEF DashInv, CountRuns
  <2>. QED
    BY <1>1, <2>1, <2>2, Counting DEF CountRuns
<1>. QED
  BY <1>2, <1>3, <1>4 DEF DashInv

LEMMA PostingStep == ASSUME DashInv, Posting PROVE DashInv'
<1>. USE DEF Posting, Moved, filterVars
<1>1. RangeTypes'
  BY DEF DashInv, RangeTypes
<1>2. RequestsSee'
  <2>1. \A r \in requests : /\ [r EXCEPT !.seen = @ \cup {booked'}] \in Request
                            /\ [r EXCEPT !.seen = @ \cup {booked'}].seen # {}
    BY <1>1 DEF DashInv, RequestsSee, Request, RangeTypes
  <2>2. requests' = {[r EXCEPT !.seen = @ \cup {booked'}] : r \in requests}
    OBVIOUS
  <2>. QED
    BY <2>1, <2>2 DEF RequestsSee
<1>3. AnswersAreServed' /\ PickIsKept'
  BY DEF DashInv, AnswersAreServed, PickIsKept
<1>4. CountTypes' /\ CountRuns'
  BY DEF DashInv, CountTypes, CountRuns, totalExpense, Figures
<1>. QED
  BY <1>1, <1>2, <1>3, <1>4 DEF DashInv

LEMMA TickStep == ASSUME DashInv, Tick PROVE DashInv'
<1>. DEFINE done(t) == t.target * (t.ticks + 1) >= t.target * Ticks
            value(t) == IF done(t) THEN t.target ELSE (t.target * (t.ticks + 1)) \div Ticks
            rest(t) == IF done(t) THEN {} ELSE {[t EXCEPT !.ticks = t.ticks + 1]}
<1>1. PICK t \in expense.timers :
        /\ expense' = [expense EXCEPT !.value = value(t), !.timers = (@ \ {t}) \cup rest(t)]
        /\ UNCHANGED <<booked, moves, filterVars, clerk, requests, answers>>
  BY DEF Tick
<1>2. RangeTypes' /\ PickIsKept' /\ RequestsSee' /\ AnswersAreServed'
  BY <1>1 DEF DashInv, RangeTypes, PickIsKept, RequestsSee, AnswersAreServed, filterVars
<1>3. PICK n \in Nat : expense.timers = {[target |-> expense.target, ticks |-> n]}
  BY <1>1 DEF DashInv, CountRuns, Running, Stands
<1>4. /\ t = [target |-> expense.target, ticks |-> n]
      /\ expense \in [target : Int, value : Int, timers : SUBSET [target : Int, ticks : Nat]]
  BY <1>1, <1>3 DEF DashInv, CountTypes
<1>5. /\ expense'.target = expense.target /\ expense'.value = value(t)
      /\ expense'.timers = rest(t)
      /\ DOMAIN expense' = {"target", "value", "timers"}
      /\ expense' = [target |-> expense.target, value |-> value(t), timers |-> rest(t)]
  BY <1>1, <1>3, <1>4
<1>6. value(t) \in Int
  <2>1. expense.target * (n + 1) \in Int
    BY <1>4
  <2>2. (expense.target * (n + 1)) \div Ticks \in Int
    BY <2>1, Divided
  <2>. QED
    BY <1>4, <2>2
<1>7. /\ rest(t) \in SUBSET [target : Int, ticks : Nat]
      /\ done(t) => rest(t) = {} /\ value(t) = expense.target
      /\ ~done(t) => rest(t) = {[target |-> expense.target, ticks |-> n + 1]}
  BY <1>4
<1>8. totalExpense' = totalExpense
  BY <1>1 DEF totalExpense, Figures, filterVars
<1>. HIDE DEF done, value, rest
<1>9. CountTypes'
  BY <1>4, <1>5, <1>6, <1>7 DEF CountTypes
<1>10. Running(expense') \/ Stands(expense')
  <2>1. CASE done(t)
    BY <1>5, <1>7, <2>1 DEF Stands
  <2>2. CASE ~done(t)
    <3>1. n + 1 \in Nat /\ expense'.timers = {[target |-> expense'.target, ticks |-> n + 1]}
      BY <1>5, <1>7, <2>2
    <3>. QED
      BY ONLY <3>1 DEF Running
  <2>. QED
    BY <2>1, <2>2
<1>11. CountRuns'
  BY <1>5, <1>8, <1>10 DEF DashInv, CountRuns
<1>. QED
  BY <1>2, <1>9, <1>11 DEF DashInv

LEMMA DashStep == DashInv /\ [DashNext]_dashVars => DashInv'
<1>. SUFFICES ASSUME DashInv, [DashNext]_dashVars PROVE DashInv'
  OBVIOUS
<1>1. CASE AskFails
  BY <1>1 DEF AskFails, DashInv, RangeTypes, RequestsSee, AnswersAreServed, CountTypes,
              CountRuns, PickIsKept, totalExpense, Figures, filterVars
<1>2. CASE UNCHANGED dashVars
  BY <1>2 DEF dashVars, cardVars, filterVars, DashInv, RangeTypes, RequestsSee,
              AnswersAreServed, CountTypes, CountRuns, PickIsKept, totalExpense, Figures
<1>. QED
  BY <1>1, <1>2, ClerkLoadsStep, PickPresetStep, PickDayStep, ReopenStep, AnsweredStep,
     PostingStep, TickStep DEF DashNext

LEMMA DashIsWhatItSays == DashInv => DashSafe
<1>. SUFFICES ASSUME DashInv PROVE DashSafe
  OBVIOUS
<1>. USE DEF DashInv
<1>1. \A k \in DOMAIN answers : Honest(answers[k]) /\ answers[k].for = k
  BY AnswersAreHonest DEF AnswersAreServed
<1>2. DashTypeOK
  <2>1. Cardinality(expense.timers) <= 1
    <3>1. expense.timers = {} \/ \E t : expense.timers = {t}
      BY DEF CountRuns, Running, Stands
    <3>2. Cardinality(expense.timers) \in {0, 1}
      BY <3>1, FS_Singleton, FS_EmptySet
    <3>. QED
      BY <3>2
  <2>2. \A r \in requests : r.seen # {} /\ r.seen \subseteq SUBSET Books
    BY DEF RequestsSee, Request
  <2>3. period[1] \in Nat /\ period[2] \in Nat /\ period[1] <= period[2]
    BY DEF RangeTypes, Ranges
  <2>. QED
    BY <2>1, <2>2, <2>3 DEF DashTypeOK, RangeTypes, CountTypes
<1>3. FiguresOfThePeriod
  BY <1>1 DEF FiguresOfThePeriod, Figures, queryKey
<1>4. CardsAgree
  BY <1>1 DEF CardsAgree, Honest, Agrees
<1>5. SharesMakeTheWhole
  BY <1>1 DEF SharesMakeTheWhole, Honest, Whole
<1>6. OverspentIsSaid
  BY <1>1 DEF OverspentIsSaid, Honest, Said
<1>7. CountEndsAtTheTotal
  <2>. SUFFICES ASSUME expense.timers = {} PROVE expense.value = totalExpense
    BY DEF CountEndsAtTheTotal
  <2>1. ~Running(expense)
    BY DEF Running
  <2>. QED
    BY <2>1 DEF CountRuns, Stands
<1>. QED
  BY <1>2, <1>3, <1>4, <1>5, <1>6, <1>7 DEF DashSafe

\* The dashboard's figures are of the range shown, agree with each other when
\* the ledger was left alone, and stand where they are once nothing moves.
THEOREM DashIsSafe == DashSpec => []DashSafe
BY DashStart, DashStep, DashIsWhatItSays, PTL DEF DashSpec

HIDE DashboardAssumption DEF DashboardAssumption

(***************************************************************************)
(* The pages together                                                      *)
(***************************************************************************)
LEMMA EachPageIsItself ==
    PagesSpec => SessionSpec /\ TablesSpec /\ FormsSpec /\ EntitySpec /\ DashSpec
<1>1. PagesInit => SessionInit /\ TablesInit /\ FormsInit /\ EntityInit /\ DashInit
  BY DEF PagesInit
<1>2. [PagesNext]_pageVars => [SessionNext]_sessionVars
  BY DEF PagesNext, pageVars
<1>3. [PagesNext]_pageVars => [TablesNext]_listVars
  BY DEF PagesNext, pageVars
<1>4. [PagesNext]_pageVars => [FormsNext]_formVars
  BY DEF PagesNext, pageVars
<1>5. [PagesNext]_pageVars => [EntityNext]_entityVars
  BY DEF PagesNext, pageVars
<1>6. [PagesNext]_pageVars => [DashNext]_dashVars
  BY DEF PagesNext, pageVars
<1>. QED
  BY <1>1, <1>2, <1>3, <1>4, <1>5, <1>6, PTL
     DEF PagesSpec, SessionSpec, TablesSpec, FormsSpec, EntitySpec, DashSpec

(***************************************************************************)
(* Whatever page is visited: what the user has put in, in a form or in a   *)
(* list, changes by what the user does and by the few answers that are     *)
(* named, and a save writes no more than that.                             *)
(***************************************************************************)
THEOREM PagesKeepInput == PagesSpec => InputIsKept
BY EachPageIsItself, SavesChangeOnlyTouched, TypedFieldsAreKept, NeverLeftPastTheEnd,
   TypedIsLostOnlyWhere, PTL DEF InputIsKept
=============================================================================
