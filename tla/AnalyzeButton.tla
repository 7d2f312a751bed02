---------------------------- MODULE AnalyzeButton ----------------------------
(***************************************************************************)
(* The "Run analysis" button of the dashboard, hop by hop: browser tabs,   *)
(* the Next.js route that proxies their POST, the rate limiter, and the    *)
(* analysis behind it (frontend/src RunAnalysisButton, route.ts, client.ts;*)
(* backend/app main.py and services/analysis.py).                          *)
(*                                                                         *)
(* Browser and proxy each give up after a time of their own; the backend's *)
(* analysis then goes on.  To the limiter all tabs are one client, the     *)
(* proxy.  What an analysis reads and writes is in module Analysis, what   *)
(* the refreshed page shows in module Pages.                               *)
(***************************************************************************)
EXTENDS RateLimiter

CONSTANTS
    Tabs,         \* browser tabs
    Clicks,       \* presses of the button, numbered: as many as the bound on them
    Proxy,        \* the address the backend sees
    Timeout,      \* DEFAULT_TIMEOUT_MS, on the clock of the limiter
    LastClick,    \* bound: the last time the button is pressed
    None

ASSUME ButtonAssumption ==
    /\ Proxy \in Clients
    /\ Clicks \subseteq Nat
    /\ Timeout \in Nat \ {0}
    /\ LastClick + 2 * Timeout <= MaxClock

VARIABLES
    pending,      \* isPending: the click a tab's button waits for
    refreshed,    \* history: the clicks after which a tab had its page refreshed
    post          \* the POST of each click, hop by hop

buttonVars == <<limiterVars, pending, refreshed, post>>

NoPost == [tab |-> None, browser |-> "unused", proxy |-> "idle",
           backend |-> "idle", asked |-> 0, forwarded |-> 0]

ButtonInit ==
    /\ LimiterInit
    /\ pending = [t \in Tabs |-> None]
    /\ refreshed = {}
    /\ post = [k \in Clicks |-> NoPost]

At(k, here) == post[k].backend = here
Goto(k, next) == post' = [post EXCEPT ![k].backend = next]

-----------------------------------------------------------------------------
(* RunAnalysisButton: disabled while an answer is awaited.                  *)
Click(t, k) ==
    /\ pending[t] = None
    /\ \A j \in Clicks : (post[j].browser = "unused") = (j >= k)
    /\ clock <= LastClick
    /\ pending' = [pending EXCEPT ![t] = k]
    /\ post' = [post EXCEPT ![k] = [NoPost EXCEPT !.tab = t,
                                                  !.browser = "waiting",
                                                  !.proxy = "asked",
                                                  !.asked = clock]]
    /\ UNCHANGED <<limiterVars, refreshed>>

(* Mutant of Reload: the button stays disabled.                             *)
ReloadDisabled(t) ==
    /\ pending[t] # None
    /\ post' = [post EXCEPT ![pending[t]] =
                   [@ EXCEPT !.browser = "abandoned", !.asked = 0]]
    /\ UNCHANGED <<limiterVars, pending, refreshed>>

(* The page is loaded anew, and with the old one goes the request it was    *)
(* waiting for; what the proxy makes of that request is no matter.          *)
Reload(t) ==
    /\ pending[t] # None
    /\ pending' = [pending EXCEPT ![t] = None]
    /\ post' = [post EXCEPT ![pending[t]] =
                   [@ EXCEPT !.browser = "abandoned", !.asked = 0]]
    /\ UNCHANGED <<limiterVars, refreshed>>

(* POST of route.ts calls the backend with a timer of its own.              *)
Forward(k) ==
    /\ post[k].proxy = "asked"
    /\ post' = [post EXCEPT ![k] =
                   [@ EXCEPT !.proxy = "waiting", !.forwarded = clock,
                             !.backend = "arriving"]]
    /\ UNCHANGED <<limiterVars, pending, refreshed>>

(* What the proxy passes on: the backend's status, or 502 when it has none. *)

(* Mutant of Statuses: the backend answers before it has stored the run.    *)
EarlyStatuses(backend) ==
    CASE backend \in {"running", "stored"} -> {"201"}
      [] backend = "refused" -> {"429"}
      [] backend = "crashed" -> {"500", "502"}
      [] OTHER               -> {}

Statuses(backend) ==
    CASE backend = "stored"  -> {"201"}
      [] backend = "refused" -> {"429"}
      [] backend = "crashed" -> {"500", "502"}
      [] OTHER               -> {}

ProxyAnswer(k) ==
    /\ post[k].proxy = "waiting"
    /\ \E s \in Statuses(post[k].backend) :
         post' = [post EXCEPT ![k] = [@ EXCEPT !.proxy = s, !.forwarded = 0]]
    /\ UNCHANGED <<limiterVars, pending, refreshed>>

(* AbortSignal.timeout: status 0, which the proxy turns into 502.           *)
ProxyTimeout(k) ==
    /\ post[k].proxy = "waiting"
    /\ clock >= post[k].forwarded + Timeout
    /\ post' = [post EXCEPT ![k] = [@ EXCEPT !.proxy = "502", !.forwarded = 0]]
    /\ UNCHANGED <<limiterVars, pending, refreshed>>

(* The button comes back; a 201 has the router refresh the page.            *)
Told(s) == CASE s = "201" -> "told_run"
             [] s = "429" -> "told_refusal"
             [] OTHER     -> "told_error"

BrowserAnswer(k) ==
    /\ post[k].browser = "waiting"
    /\ post[k].proxy \in {"201", "429", "500", "502"}
    /\ post' = [post EXCEPT ![k] =
                   [@ EXCEPT !.browser = Told(post[k].proxy), !.asked = 0]]
    /\ pending' = [pending EXCEPT ![post[k].tab] = None]
    /\ refreshed' = IF post[k].proxy = "201" THEN refreshed \cup {k}
                    ELSE refreshed
    /\ UNCHANGED limiterVars

(* Mutant of BrowserTimeout: the request has no timeout.                    *)
NoBrowserTimeout(k) == FALSE /\ UNCHANGED buttonVars

BrowserTimeout(k) ==
    /\ post[k].browser = "waiting"
    /\ clock >= post[k].asked + Timeout
    /\ post' = [post EXCEPT ![k] =
                   [@ EXCEPT !.browser = "told_error", !.asked = 0]]
    /\ pending' = [pending EXCEPT ![post[k].tab] = None]
    /\ UNCHANGED <<limiterVars, refreshed>>

-----------------------------------------------------------------------------
(* The backend: the limiter, then run_analysis, which nobody cancels when   *)
(* the proxy hangs up.                                                      *)
Arrive(k) ==
    /\ At(k, "arriving")
    /\ \/ Admit(Proxy) /\ Goto(k, "running")
       \/ Refuse(Proxy) /\ Goto(k, "refused")
    /\ UNCHANGED <<pending, refreshed>>

EndAnalysis(k) ==
    /\ At(k, "running")
    /\ Goto(k, "stored") \/ Goto(k, "crashed")
    /\ UNCHANGED <<limiterVars, pending, refreshed>>

(* Timers are punctual: time does not pass an answer's deadline.            *)
PassTime ==
    /\ \A k \in Clicks :
         /\ post[k].browser = "waiting" => clock < post[k].asked + Timeout
         /\ post[k].proxy = "waiting" => clock < post[k].forwarded + Timeout
    /\ Tick
    /\ UNCHANGED <<pending, refreshed, post>>

(* The backend restarts: the table of the limiter is empty again, and what  *)
(* was running or arriving is gone.                                         *)
RestartBackend ==
    /\ Restart
    /\ post' = [k \in Clicks |->
                  IF post[k].backend \in {"arriving", "running"}
                  THEN [post[k] EXCEPT !.backend = "crashed"] ELSE post[k]]
    /\ UNCHANGED <<pending, refreshed>>

ButtonNext ==
    \/ \E t \in Tabs : Reload(t) \/ \E k \in Clicks : Click(t, k)
    \/ \E k \in Clicks :
         \/ Forward(k)
         \/ ProxyAnswer(k)
         \/ ProxyTimeout(k)
         \/ BrowserAnswer(k)
         \/ BrowserTimeout(k)
         \/ Arrive(k)
         \/ EndAnalysis(k)
    \/ PassTime
    \/ RestartBackend

ButtonSpec == ButtonInit /\ [][ButtonNext]_buttonVars

(* Time passes and the browser's timer fires; nothing is asked of the       *)
(* backend, nor of the proxy beyond its own timer.                          *)
FairButtonSpec ==
    /\ ButtonSpec
    /\ WF_buttonVars(PassTime)
    /\ \A k \in Clicks : /\ WF_buttonVars(BrowserTimeout(k))
                         /\ WF_buttonVars(ProxyTimeout(k))

-----------------------------------------------------------------------------
(* Types; a button that waits has a request of its own tab to wait for.     *)
ButtonTypeOK ==
    /\ LimiterTypeOK
    /\ pending \in [Tabs -> Clicks \cup {None}]
    /\ \A t \in Tabs : pending[t] # None =>
         post[pending[t]].tab = t /\ post[pending[t]].browser = "waiting"
    /\ refreshed \subseteq Clicks

(* What the user is told is true behind two timers and a proxy: "run", and  *)
(* the refresh that follows, mean the run is stored, and a refusal that     *)
(* nothing runs for this click or ever will.                                *)
ToldTruth ==
    \A k \in Clicks :
        /\ k \in refreshed => post[k].backend = "stored"
        /\ post[k].browser = "told_run" => k \in refreshed
        /\ post[k].browser = "told_refusal" => post[k].backend = "refused"

(* The button always comes back, whatever the backend does.                 *)
ButtonComesBack ==
    \A t \in Tabs : pending[t] # None ~> pending[t] = None
=============================================================================
