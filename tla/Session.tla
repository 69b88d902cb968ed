------------------------------ MODULE Session ------------------------------
(* Signing in, up and out: the pages that ask, the proxy in front of every    *)
(* page, and the sidebar's Logout.  Clerk keeps the session and decides what  *)
(* an attempt is worth; its answers are choices here.  A navigation is asked  *)
(* of the proxy, then the page is put up; a later one supersedes it.          *)
EXTENDS Naturals, FiniteSets

CONSTANTS
    NoNav,
    MaxAttempts,    \* bound: calls made to Clerk
    MaxWalks        \* bound: links followed, back pressed

AuthPages == {"sign-in", "sign-up", "sso-callback"}
Protected == {"dashboard", "profile"}
AppPages == AuthPages \cup Protected \cup {"home"}

ASSUME SessionAssumption ==
    /\ MaxAttempts \in Nat /\ MaxWalks \in Nat
    /\ NoNav \notin [to : AppPages, passed : BOOLEAN]

VARIABLES
    session,    \* has the browser a session?
    at,         \* the page on screen
    nav,        \* the navigation under way: [to, passed], or NoNav
    step,       \* of the sign-in or sign-up page: what it asks for
    busy,       \* isLoading, isVerifying: is the step's button off?
    tries,      \* calls in flight: [id, kind, here], here while the component
                \* that made the call is on screen
    attempts,   \* calls made
    walks,      \* links followed
    mailed,     \* the attempts Clerk holds that a code was sent for
    submitted   \* attempts started, by page

sessionVars == <<session, at, nav, step, busy, tries, attempts, walks, mailed,
                 submitted>>
pageState == <<at, step, busy>>
mailState == <<mailed, submitted>>

StepCalls == {"password", "code", "signUpCode", "activate"}
ButtonCalls == StepCalls \cup {"register", "prepareSignUp"}

SessionInit ==
    /\ session \in BOOLEAN /\ at = "home" /\ nav = NoNav
    /\ step = "email" /\ busy = FALSE /\ tries = {} /\ attempts = 0 /\ walks = 0
    /\ mailed = {} /\ submitted = [p \in {"sign-in", "sign-up"} |-> 0]
-----------------------------------------------------------------------------
(* Navigation.                                                                *)
proxy(to) ==
    CASE to \in AuthPages /\ session -> "profile"
      [] to \in Protected /\ ~session -> "sign-in"
      [] OTHER -> to

Push(to) == nav' = [to |-> to, passed |-> FALSE]

AskProxy ==
    /\ nav # NoNav /\ ~nav.passed
    /\ nav' = [to |-> proxy(nav.to), passed |-> TRUE]
    /\ UNCHANGED <<session, pageState, tries, attempts, walks, mailState>>

(* Another page: its state starts anew, and no answer finds its asker.        *)
PutUp ==
    /\ nav # NoNav /\ nav.passed
    /\ nav' = NoNav /\ at' = nav.to
    /\ IF nav.to = at THEN UNCHANGED <<step, busy, tries>>
       ELSE /\ step' = "email" /\ busy' = FALSE
            /\ tries' = {[t EXCEPT !.here = FALSE] : t \in tries}
    /\ UNCHANGED <<session, attempts, walks, mailState>>

(* A link, or back: the steps of signing in are no pages of their own, so     *)
(* back leaves them all.                                                      *)
handleGoBack ==
    /\ walks < MaxWalks /\ walks' = walks + 1
    /\ \E to \in {"home", "sign-in", "sign-up", "dashboard", "profile"} : Push(to)
    /\ UNCHANGED <<session, pageState, tries, attempts, mailState>>
-----------------------------------------------------------------------------
Try(kind) ==
    /\ attempts < MaxAttempts /\ attempts' = attempts + 1
    /\ tries' = tries \cup {[id |-> attempts, kind |-> kind, here |-> TRUE]}

(* Sign-in.  The e-mail's button stays on while its answer is awaited.        *)
handleEmailSubmit ==
    /\ at = "sign-in" /\ step = "email" /\ Try("identify")
    /\ submitted' = [submitted EXCEPT ![at] = @ + 1]
    /\ UNCHANGED <<session, at, nav, step, busy, walks, mailed>>

handlePasswordLogin ==
    /\ at = "sign-in" /\ step = "password" /\ ~busy /\ Try("password")
    /\ busy' = TRUE
    /\ UNCHANGED <<session, at, nav, step, walks, mailState>>

handleOtpVerification ==
    /\ at \in {"sign-in", "sign-up"} /\ step = "otp" /\ ~busy
    /\ Try(IF at = "sign-in" THEN "code" ELSE "signUpCode") /\ busy' = TRUE
    /\ UNCHANGED <<session, at, nav, step, walks, mailState>>

(* Sign-up.                                                                   *)
handleSubmit ==
    /\ at = "sign-up" /\ step = "email" /\ ~busy /\ Try("register")
    /\ busy' = TRUE /\ submitted' = [submitted EXCEPT ![at] = @ + 1]
    /\ UNCHANGED <<session, at, nav, step, walks, mailed>>

(* Google's page takes the tab: calls in flight are lost.                     *)
authenticateWithRedirect ==
    /\ at \in {"sign-in", "sign-up"} /\ step = "email" /\ nav = NoNav
    /\ attempts < MaxAttempts /\ attempts' = attempts + 1
    /\ at' = "sso-callback" /\ step' = "email" /\ busy' = FALSE /\ tries' = {}
    /\ UNCHANGED <<session, nav, walks, mailState>>

AuthenticateWithRedirectCallback ==
    /\ at = "sso-callback" /\ nav = NoNav
    /\ \/ session' = TRUE /\ Push("dashboard")
       \/ UNCHANGED session /\ Push("sign-in")
    /\ UNCHANGED <<pageState, tries, attempts, walks, mailState>>

(* The sidebar does not await the end of the session before it leaves.        *)
Logout ==
    /\ at \in Protected /\ session /\ Try("signOut") /\ Push("sign-in")
    /\ UNCHANGED <<session, pageState, walks, mailState>>
-----------------------------------------------------------------------------
(* The step on screen becomes another: the old one's calls lose their asker.  *)
StepTo(s, pending) ==
    /\ step' = s
    /\ IF s = step THEN UNCHANGED busy /\ tries' = pending
       ELSE /\ busy' = FALSE
            /\ tries' = {IF t.kind \in StepCalls THEN [t EXCEPT !.here = FALSE]
                         ELSE t : t \in pending}

(* finally: the button is on again, if it is still there.                     *)
Finally(t) == busy' = IF t.here /\ t.kind \in ButtonCalls THEN FALSE ELSE busy

(* An e-mail is known with a password, or with a code, to be mailed first; or *)
(* with neither, or no first factor is wanted.                                *)
StepBeforeMail(t) ==
    /\ IF t.here THEN StepTo("otp", (tries \ {t}) \cup {[t EXCEPT !.kind = "prepare"]})
       ELSE tries' = (tries \ {t}) \cup {[t EXCEPT !.kind = "prepare"]}
            /\ UNCHANGED <<step, busy>>
CodeFactor(t) ==
    /\ tries' = (tries \ {t}) \cup {[t EXCEPT !.kind = "prepare"]}
    /\ UNCHANGED <<step, busy>>
Identified ==
    \E t \in tries :
        /\ t.kind = "identify" /\ mailed' = mailed \ {"sign-in"}
        /\ \/ CodeFactor(t)
           \/ IF t.here THEN StepTo("password", tries \ {t})
              ELSE tries' = tries \ {t} /\ UNCHANGED <<step, busy>>
           \/ tries' = tries \ {t} /\ UNCHANGED <<step, busy>>
        /\ UNCHANGED <<session, at, nav, attempts, walks, submitted>>

Prepared ==
    \E t \in tries :
        /\ t.kind \in {"prepare", "prepareSignUp"}
        /\ mailed' = mailed \cup {IF t.kind = "prepare" THEN "sign-in" ELSE "sign-up"}
        /\ IF t.here THEN StepTo("otp", tries \ {t})
           ELSE tries' = tries \ {t} /\ UNCHANGED <<step, busy>>
        /\ UNCHANGED <<session, at, nav, attempts, walks, submitted>>

Registered ==
    \E t \in tries :
        /\ t.kind = "register" /\ mailed' = mailed \ {"sign-up"}
        /\ tries' = (tries \ {t}) \cup {[t EXCEPT !.kind = "prepareSignUp"]}
        /\ UNCHANGED <<session, pageState, nav, attempts, walks, submitted>>

(* The attempt is complete; anything less than complete changes nothing.      *)
Complete ==
    \E t \in tries :
        /\ t.kind \in {"password", "code", "signUpCode"}
        /\ tries' = (tries \ {t}) \cup {[t EXCEPT !.kind = "activate"]}
        /\ mailed' = IF t.kind = "password" THEN mailed \ {"sign-in"} ELSE mailed
        /\ UNCHANGED <<session, pageState, nav, attempts, walks, submitted>>

(* The page is left for once the session is there, wherever the user went.    *)
setActive(t) ==
    /\ tries' = tries \ {t}
    /\ session' = TRUE /\ Push("dashboard") /\ Finally(t)
Activated ==
    \E t \in tries :
        /\ t.kind = "activate" /\ setActive(t)
        /\ UNCHANGED <<at, step, attempts, walks, mailState>>

(* Refused, lost, or answered with less than was asked for.                   *)
setError(t) == tries' = tries \ {t} /\ Finally(t)
Failed ==
    \E t \in tries :
        /\ t.kind # "signOut" /\ setError(t)
        /\ UNCHANGED <<session, at, nav, step, attempts, walks, mailState>>

(* Clerk ends the session and goes home; or fails, and nobody is told.        *)
SignedOut ==
    \E t \in tries :
        /\ t.kind = "signOut" /\ tries' = tries \ {t}
        /\ \/ session' = FALSE /\ Push("home")
           \/ UNCHANGED <<session, nav>>
        /\ UNCHANGED <<pageState, attempts, walks, mailState>>

SessionNext ==
    \/ AskProxy \/ PutUp \/ handleGoBack
    \/ handleEmailSubmit \/ handlePasswordLogin \/ handleOtpVerification
    \/ handleSubmit \/ authenticateWithRedirect \/ AuthenticateWithRedirectCallback
    \/ Logout \/ Identified \/ Prepared \/ Registered \/ Complete \/ Activated
    \/ Failed \/ SignedOut

SessionSpec == SessionInit /\ [][SessionNext]_sessionVars
-----------------------------------------------------------------------------
(* The state has its type.                                                    *)
SessionTypeOK ==
    /\ session \in BOOLEAN /\ at \in AppPages /\ busy \in BOOLEAN /\ mailed \subseteq AuthPages
    /\ nav # NoNav => nav.to \in AppPages
    /\ step \in {"email", "password", "otp"}
    /\ step = "password" => at = "sign-in"
    /\ step = "otp" => at \in {"sign-in", "sign-up"}

(* When all is answered and no page is on its way, a page behind the proxy    *)
(* has a session and a page that asks for one does not: also after a sign-in  *)
(* that was left before its answer came, and a logout overtaken by the proxy. *)
PageFitsSession ==
    tries = {} /\ nav = NoNav =>
        /\ at \in Protected => session
        /\ at \in {"sign-in", "sign-up"} => ~session

(* A step's button is off exactly while a call of that step is in flight, and *)
(* then one only: a code or a password is not tried twice by a double click,  *)
(* and no failure leaves the button off for good.                             *)
OneTryAtATime ==
    LET mine == {t \in tries : t.here /\ t.kind \in ButtonCalls} IN
    /\ Cardinality(mine) <= 1
    /\ busy <=> mine # {}

(* A page that asks for a code comes after Clerk has mailed one, as long as   *)
(* its attempt is the page's only one: a second, or the late answer of one    *)
(* left behind, replaces the attempt the code was mailed for.                 *)
CodeWasMailed ==
    step = "otp" => at \in mailed \/ submitted[at] > 1

(* The pages, the proxy and Clerk agree on who is signed in, through late     *)
(* answers, walks between pages and a logout that is overtaken.               *)
SessionSafe == SessionTypeOK /\ PageFitsSession /\ OneTryAtATime /\ CodeWasMailed
=============================================================================
