------------------------------ MODULE LoginFlow ------------------------------
(***************************************************************************)
(* The interactive login: authURL, its claim of one login request per       *)
(* backend generation and logout (backend.go), and the UI's login command   *)
(* with its polling (BridgeStatus.ets, VpnCommandStateMachine).  Native     *)
(* calls run on worker threads, so that a poll, a logout and a restart      *)
(* overlap; a poll whose command has ended may still be under way.          *)
(***************************************************************************)
EXTENDS Naturals

CONSTANTS MaxGen, MaxCommand,   \* bounds on backends and login commands
          MaxAttempt            \* polls of one command after the first (60)

Bounds == MaxGen \in Nat \ {0} /\ MaxCommand \in Nat /\ MaxAttempt \in Nat

ASSUME BoundsAssumption == Bounds

VARIABLES
    gen,                \* generation of the backend
    loggedIn,           \* external: the node is logged in
    url,                \* external: the control server has published a login page
    requested,          \* external: a login request is pending for this generation
    loginGen, loginStarted,   \* b.loginGeneration, b.loginStarted
    logout,             \* the logout call
    active, nextId,     \* VpnCommandStateMachine's activeCommandId, nextCommandId
    inProgress,         \* loginInProgress
    opened,             \* the command whose handoff status says its page is open, or 0
    poll,               \* each login command's chain of polls
    repeated            \* a request was repeated while one was pending

world == <<gen, loggedIn, url, requested>>
claim == <<loginGen, loginStarted>>
ui == <<active, nextId, inProgress, opened>>
vars == <<world, claim, logout, ui, poll, repeated>>

Commands == 1 .. MaxCommand
NoPoll == [at |-> "none", gen |-> 0, attempt |-> 0]
NoLogout == [at |-> "none", gen |-> 0]

Init ==
    /\ gen = 1 /\ loggedIn \in BOOLEAN /\ url = FALSE /\ requested = FALSE
    /\ loginGen = 0 /\ loginStarted = FALSE
    /\ logout = NoLogout
    /\ active = 0 /\ nextId = 1 /\ inProgress = FALSE /\ opened = 0
    /\ poll = [c \in Commands |-> NoPoll] /\ repeated = FALSE

IsActive(c) == c = active
Goto(c, at) == poll' = [poll EXCEPT ![c].at = at]
\* stopLoginPolling clears the one timer; a native call under way goes on.
TimersKept == poll
WithoutTimers == [c \in Commands |-> IF poll[c].at = "timer" THEN NoPoll ELSE poll[c]]
ClearLoginStart(g) ==
    loginStarted' = IF loginGen = g THEN FALSE ELSE loginStarted
-----------------------------------------------------------------------------
(* The UI's login command *)

\* openSecureLogin: a second command cannot begin while one is active.
OpenSecureLogin ==
    /\ ~inProgress /\ ~loggedIn /\ active = 0 /\ nextId \in Commands
    /\ active' = nextId /\ nextId' = nextId + 1 /\ inProgress' = TRUE /\ opened' = 0
    /\ poll' = [WithoutTimers EXCEPT ![nextId] = [NoPoll EXCEPT !.at = "timer"]]
    /\ UNCHANGED <<world, claim, logout, repeated>>

\* pollSecureLogin calls authURL, which takes the client and the generation.
PollFires(c) ==
    /\ poll[c].at = "timer"
    /\ poll' = IF IsActive(c) THEN [poll EXCEPT ![c].at = "status", ![c].gen = gen]
                              ELSE [poll EXCEPT ![c] = NoPoll]
    /\ UNCHANGED <<world, claim, logout, ui, repeated>>

\* authURL: no client or no status; a page is there; or it has to be asked for.
AuthStatus(c) ==
    /\ poll[c].at = "status"
    /\ \/ Goto(c, "pending")
       \/ poll[c].gen = gen /\ Goto(c, IF url THEN "url" ELSE "claim")
    /\ UNCHANGED <<world, claim, logout, ui, repeated>>

\* claimInteractiveLoginStart
ClaimLogin(c) ==
    /\ poll[c].at = "claim"
    /\ IF loginGen = poll[c].gen /\ loginStarted
       THEN Goto(c, "pending") /\ UNCHANGED claim
       ELSE Goto(c, "request") /\ loginGen' = poll[c].gen /\ loginStarted' = TRUE
    /\ UNCHANGED <<world, logout, ui, repeated>>

RequestLoginUncleared(c) ==
    /\ poll[c].at = "request"
    /\ Goto(c, "pending")
    /\ \/ /\ poll[c].gen = gen
          /\ requested' = TRUE /\ repeated' = (repeated \/ requested)
       \/ UNCHANGED <<requested, repeated>>
    /\ UNCHANGED <<gen, loggedIn, url, claim, logout, ui>>
\* StartLoginInteractive, and clearInteractiveLoginStart if it fails.
RequestLogin(c) ==
    /\ poll[c].at = "request"
    /\ Goto(c, "pending")
    /\ \/ /\ poll[c].gen = gen
          /\ requested' = TRUE /\ repeated' = (repeated \/ requested)
          /\ UNCHANGED claim
       \/ /\ ClearLoginStart(poll[c].gen)
          /\ UNCHANGED <<loginGen, requested, repeated>>
    /\ UNCHANGED <<gen, loggedIn, url, logout, ui>>

\* The promise settles: a pending answer is polled again up to the limit, a page is
\* opened in the browser; nothing of it when the command has ended.
Finish(c) ==
    /\ active' = 0 /\ inProgress' = FALSE /\ opened' = 0
    /\ UNCHANGED nextId

PollAgainUnbounded(c) == TRUE
PollAgain(c) == poll[c].attempt < MaxAttempt

Pending(c) ==
    /\ poll[c].at = "pending"
    /\ IF IsActive(c) /\ PollAgain(c)
       THEN /\ poll' = [poll EXCEPT ![c].at = "timer",
                         ![c].attempt = IF @ < MaxAttempt THEN @ + 1 ELSE @]
            /\ UNCHANGED ui
       ELSE /\ Goto(c, "none")
            /\ IF IsActive(c) THEN Finish(c) ELSE UNCHANGED ui
    /\ UNCHANGED <<world, claim, logout, repeated>>

OpenBrowser(c) ==
    /\ poll[c].at = "url"
    /\ \/ IsActive(c) /\ Goto(c, "browser") /\ UNCHANGED ui
       \/ IsActive(c) /\ Goto(c, "none") /\ Finish(c)     \* not a page's address
       \/ ~IsActive(c) /\ Goto(c, "none") /\ UNCHANGED ui
    /\ UNCHANGED <<world, claim, logout, repeated>>

\* openSecureLoginBrowser has resolved or failed; the command may have ended meanwhile.
BrowserOpened(c) ==
    /\ poll[c].at = "browser"
    /\ Goto(c, "none")
    /\ \/ IsActive(c) /\ opened' = c /\ UNCHANGED <<active, nextId, inProgress>>
       \/ IsActive(c) /\ Finish(c)
       \/ ~IsActive(c) /\ UNCHANGED ui
    /\ UNCHANGED <<world, claim, logout, repeated>>

\* A status that says the node is logged in ends the login.
CompleteLogin ==
    /\ inProgress /\ active # 0 /\ opened = active /\ loggedIn
    /\ active' = 0 /\ inProgress' = FALSE /\ opened' = 0
    /\ UNCHANGED <<nextId, world, claim, logout, poll, repeated>>

\* The page goes away and comes back (invalidateLifecycle).
PageRecreated ==
    /\ active # 0
    /\ active' = 0 /\ inProgress' = FALSE /\ opened' = 0 /\ poll' = WithoutTimers
    /\ UNCHANGED <<nextId, world, claim, logout, repeated>>
-----------------------------------------------------------------------------
(* logout *)

LogoutCall ==
    /\ logout.at = "none" /\ loggedIn
    /\ logout' = [at |-> "call", gen |-> gen]
    /\ UNCHANGED <<world, claim, ui, poll, repeated>>

\* client.Logout logs the node out at once and then waits for the control server.
LogoutLocal ==
    /\ logout.at = "call" /\ logout.gen = gen
    /\ loggedIn' = FALSE /\ url' = FALSE /\ requested' = FALSE
    /\ logout' = [logout EXCEPT !.at = "wait"]
    /\ UNCHANGED <<gen, claim, ui, poll, repeated>>

\* It fails; or the choice file cannot be removed, and the call returns before it
\* clears the claim; or it clears the claim.
LogoutReturns ==
    /\ \/ logout.at \in {"call", "wait"} /\ logout' = NoLogout /\ UNCHANGED claim
       \/ /\ logout.at = "wait" /\ logout' = [logout EXCEPT !.at = "ok"]
          /\ \/ UNCHANGED claim
             \/ ClearLoginStart(logout.gen) /\ UNCHANGED loginGen
    /\ UNCHANGED <<world, ui, poll, repeated>>

\* The UI's continuation of a logout that was answered OK.
LoggedOut ==
    /\ logout.at = "ok" /\ logout' = NoLogout
    /\ inProgress' = FALSE /\ opened' = 0 /\ poll' = WithoutTimers
    /\ UNCHANGED <<active, nextId, world, claim, repeated>>
-----------------------------------------------------------------------------
(* The backend and the control server *)

Restart ==
    /\ gen < MaxGen
    /\ gen' = gen + 1 /\ url' = FALSE /\ requested' = FALSE
    /\ UNCHANGED <<loggedIn, claim, logout, ui, poll, repeated>>

PublishUrl ==
    /\ requested /\ ~url
    /\ url' = TRUE
    /\ UNCHANGED <<gen, loggedIn, requested, claim, logout, ui, poll, repeated>>

Authenticate ==
    /\ url
    /\ loggedIn' = TRUE /\ url' = FALSE /\ requested' = FALSE
    /\ UNCHANGED <<gen, claim, logout, ui, poll, repeated>>

PollStep(c) == \/ PollFires(c) \/ AuthStatus(c) \/ ClaimLogin(c) \/ RequestLogin(c)
               \/ Pending(c) \/ OpenBrowser(c) \/ BrowserOpened(c)

Next ==
    \/ OpenSecureLogin \/ CompleteLogin \/ PageRecreated
    \/ \E c \in Commands : PollStep(c)
    \/ LogoutCall \/ LogoutLocal \/ LogoutReturns \/ LoggedOut
    \/ Restart \/ PublishUrl \/ Authenticate

\* Timers fire and the native call has deadlines.
Spec == Init /\ [][Next]_vars /\ \A c \in Commands : WF_vars(PollStep(c))
-----------------------------------------------------------------------------
(* Properties *)

\* Every variable keeps its type; one chain of polls at most has its timer set.
TypeOK ==
    /\ gen \in 1 .. MaxGen /\ loginGen \in 0 .. MaxGen /\ loginStarted \in BOOLEAN
    /\ active \in 0 .. MaxCommand /\ opened \in 0 .. MaxCommand
    /\ \A c \in Commands : poll[c].attempt \in 0 .. MaxAttempt
    /\ \A c, d \in Commands : poll[c].at = "timer" /\ poll[d].at = "timer" => c = d

\* The claim of the live backend stands for something: its request is pending or about to
\* be made, or the node is logged in.  Otherwise every poll is told that the login was
\* requested, and none asks for a page until the backend restarts.
ClaimBacked ==
    loginStarted /\ loginGen = gen =>
      requested \/ loggedIn \/ \E c \in Commands : poll[c].at = "request" /\ poll[c].gen = gen

\* Only a logout takes away what a claim stands for, at the moment the node is logged out:
\* no failed request, late poll of an older backend or ended command, restart or new page
\* does (claimInteractiveLoginStart, clearInteractiveLoginStart).  What the logout then
\* makes of the claim is LoginNotBlocked.
ClaimNotStranded == [][ClaimBacked /\ ~ClaimBacked' => logout.at = "call"]_vars

\* Polling ends, by a page, a failure, the limit or a logout.
PollingEnds == \A c \in Commands : poll[c].at # "none" ~> poll[c].at = "none"

\* A login request is made only once for a backend ("must be issued only once for the
\* current backend generation; repeated polls otherwise restart the interactive flow").
RequestedOnce == ~repeated

\* The login button is refused only while a command is really under way ("request and
\* open the existing backend login URL", "Concurrent login/connect commands are
\* rejected"): an active command has a poll or an open page that will complete it.
CommandHasOwner == active # 0 => poll[active].at # "none" \/ opened = active

\* When logout answers OK and the claim is taken, a request is pending: otherwise no poll
\* of this backend can ask for a login page any more ("OK | logged out | local preference
\* cleanup pending").
LoginNotBlocked ==
    logout.at = "ok" /\ loginStarted /\ loginGen = gen
      => requested \/ loggedIn \/ \E c \in Commands : poll[c].at = "request"
=============================================================================
