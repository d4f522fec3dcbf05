---- MODULE SignIn ----
(***************************************************************************)
(* RuntimeAuthSessionManager (packages/sidecar/src/auth): sign-ins at      *)
(* providers.  A sign-in is a flow of the embedded runtime that asks the   *)
(* user one thing after another; the user's answers arrive as requests,    *)
(* and the authorization code of an OAuth sign-in arrives as an answer or  *)
(* as a redirect of the browser, early, late or never.  One port takes the *)
(* redirects, and the first sign-in under way has it.                      *)
(***************************************************************************)
EXTENDS Naturals

CONSTANTS
    Sessions,     \* sign-ins
    None,         \* nobody has the port, no code
    Other,        \* another program has the port
    MaxPrompts,   \* bound: questions of one flow
    MaxRedirects  \* bound: redirects of one browser

ASSUME NobodyAssumption == None \notin Sessions \cup {Other} /\ Other \notin Sessions
ASSUME BoundsAssumption == MaxPrompts \in Nat /\ MaxRedirects \in Nat

\* What a flow asks; "code" is the text prompt that isOAuthCodePrompt recognises.
Kinds == {"confirm", "select", "text", "code"}

VARIABLES
    flow,       \* what each sign-in's flow does: a prompt it waits for, or a stage
    pending,    \* record.pendingResponse: the prompt whose answer respond() takes
    step,       \* snapshot.step: what the user sees
    codes,      \* oauthCallbackCodes: the browser whose code is kept for the session
    resolvers,  \* oauthCallbackResolvers: sessions whose code prompt a redirect answers
    port,       \* whose interceptor has the callback port
    linked,     \* sessions whose link was shown: their browsers may redirect
    asked,      \* questions asked so far (bounded by MaxPrompts)
    redirects,  \* redirects so far (bounded by MaxRedirects)
    refused     \* history: sessions of which some answer was refused

vars == <<flow, pending, step, codes, resolvers, port, linked, asked, redirects, refused>>

Init ==
    /\ flow = [s \in Sessions |-> "new"]
    /\ pending = [s \in Sessions |-> "none"]
    /\ step = [s \in Sessions |-> "none"]
    /\ codes = [s \in Sessions |-> None]
    /\ resolvers = {}
    /\ port \in {None, Other}
    /\ linked = {}
    /\ asked = [s \in Sessions |-> 0]
    /\ redirects = [s \in Sessions |-> 0]
    /\ refused = {}

Waiting(s) == flow[s] \in Kinds

----------------------------------------------------------------------------
(* start and run                                                           *)

\* The session is created and can be asked for from here on.
Start(s) ==
    /\ flow[s] = "new"
    /\ flow' = [flow EXCEPT ![s] = "starting"]
    /\ step' = [step EXCEPT ![s] = "working"]
    /\ UNCHANGED <<pending, codes, resolvers, port, linked, asked, redirects, refused>>

\* startCallbackInterceptor: the port if it is free; without it the flow goes on all the same.
Listen(s) ==
    /\ flow[s] = "starting"
    /\ flow' = [flow EXCEPT ![s] = "applying"]
    /\ port' = IF port = None THEN s ELSE port
    /\ UNCHANGED <<pending, step, codes, resolvers, linked, asked, redirects, refused>>

\* Mutant: the interceptor is closed only when the sign-in succeeded.
EndKeepsPort(s, how) ==
    /\ flow' = [flow EXCEPT ![s] = how]
    /\ step' = [step EXCEPT ![s] = how]
    /\ codes' = [codes EXCEPT ![s] = None]
    /\ resolvers' = resolvers \ {s}
    /\ port' = IF port = s /\ how = "completed" THEN None ELSE port
    /\ UNCHANGED <<linked, asked, redirects, refused>>

\* The callback's entries go, and the interceptor is closed.
End(s, how) ==
    /\ flow' = [flow EXCEPT ![s] = how]
    /\ step' = [step EXCEPT ![s] = how]
    /\ codes' = [codes EXCEPT ![s] = None]
    /\ resolvers' = resolvers \ {s}
    /\ port' = IF port = s THEN None ELSE port
    /\ UNCHANGED <<linked, asked, redirects, refused>>

\* applyAuthChoice returns a connection.
Succeed(s) ==
    /\ flow[s] = "applying"
    /\ End(s, "completed")
    /\ UNCHANGED pending

\* It throws, or returns none; the runtime may give up while it waits for an answer.
Fail(s) ==
    /\ flow[s] = "applying" \/ Waiting(s)
    /\ End(s, "error")
    /\ pending' = [pending EXCEPT ![s] = "none"]

----------------------------------------------------------------------------
(* createPrompter: the flow's calls                                        *)

\* authLink, progress
Show(s, what) ==
    /\ flow[s] = "applying"
    /\ step' = [step EXCEPT ![s] = what]
    /\ linked' = IF what = "link" THEN linked \cup {s} ELSE linked
    /\ UNCHANGED <<flow, pending, codes, resolvers, port, asked, redirects, refused>>

\* Mutant: text() does not look for a code that came before it.
AskAlways(s, kind) ==
    /\ flow[s] = "applying" /\ asked[s] < MaxPrompts
    /\ asked' = [asked EXCEPT ![s] = @ + 1]
    /\ flow' = [flow EXCEPT ![s] = kind]
    /\ pending' = [pending EXCEPT ![s] = kind]
    /\ step' = [step EXCEPT ![s] = kind]
    /\ resolvers' = IF kind = "code" THEN resolvers \cup {s} ELSE resolvers
    /\ UNCHANGED <<codes, port, linked, redirects, refused>>

\* confirm, select, multiselect, text: wait for an answer. A code that came before it is
\* asked for answers the prompt at once.
Ask(s, kind) ==
    /\ flow[s] = "applying"
    /\ asked[s] < MaxPrompts
    /\ asked' = [asked EXCEPT ![s] = @ + 1]
    /\ IF kind = "code" /\ codes[s] # None
       THEN /\ codes' = [codes EXCEPT ![s] = None]
            /\ UNCHANGED <<flow, pending, step, resolvers>>
       ELSE /\ flow' = [flow EXCEPT ![s] = kind]
            /\ pending' = [pending EXCEPT ![s] = kind]
            /\ step' = [step EXCEPT ![s] = kind]
            /\ resolvers' = IF kind = "code" THEN resolvers \cup {s} ELSE resolvers
            /\ UNCHANGED codes
    /\ UNCHANGED <<port, linked, redirects, refused>>

----------------------------------------------------------------------------
(* respond                                                                 *)

\* Mutant: a pasted code leaves the resolver for the redirect.
RespondKeepsResolver(s) ==
    /\ pending[s] # "none"
    /\ pending' = [pending EXCEPT ![s] = "none"]
    /\ step' = [step EXCEPT ![s] = "working"]
    /\ flow' = [flow EXCEPT ![s] = "applying"]
    /\ UNCHANGED <<codes, resolvers, port, linked, asked, redirects, refused>>

\* A valid answer: the flow goes on. After any text, the callback's entries go.
Respond(s) ==
    /\ pending[s] # "none"
    /\ pending' = [pending EXCEPT ![s] = "none"]
    /\ step' = [step EXCEPT ![s] = "working"]
    /\ flow' = [flow EXCEPT ![s] = "applying"]
    /\ IF pending[s] \in {"text", "code"}
       THEN codes' = [codes EXCEPT ![s] = None] /\ resolvers' = resolvers \ {s}
       ELSE UNCHANGED <<codes, resolvers>>
    /\ UNCHANGED <<port, linked, asked, redirects, refused>>

\* A blank text or a value of another type: pendingResponse is deleted before the value is
\* looked at.
RespondInvalid(s) ==
    /\ pending[s] # "none"
    /\ pending' = [pending EXCEPT ![s] = "none"]
    /\ refused' = refused \cup {s}
    /\ UNCHANGED <<flow, step, codes, resolvers, port, linked, asked, redirects>>

----------------------------------------------------------------------------
(* receiveOAuthCallback                                                    *)

\* Mutant: the redirect answers the prompt and leaves it on the screen and pending.
ReceiveQuietly(s, code) ==
    IF s \in resolvers
    THEN /\ resolvers' = resolvers \ {s}
         /\ flow' = IF pending[s] # "none" THEN [flow EXCEPT ![s] = "applying"] ELSE flow
         /\ UNCHANGED <<pending, step, codes>>
    ELSE codes' = [codes EXCEPT ![s] = code] /\ UNCHANGED <<flow, pending, step, resolvers>>

\* The code prompt is answered, unless its pendingResponse is gone; without a prompt the
\* code is kept.
Receive(s, code) ==
    IF s \in resolvers
    THEN /\ resolvers' = resolvers \ {s}
         /\ UNCHANGED codes
         /\ IF pending[s] # "none"
            THEN /\ pending' = [pending EXCEPT ![s] = "none"]
                 /\ step' = [step EXCEPT ![s] = "working"]
                 /\ flow' = [flow EXCEPT ![s] = "applying"]
            ELSE UNCHANGED <<flow, pending, step>>
    ELSE codes' = [codes EXCEPT ![s] = code] /\ UNCHANGED <<flow, pending, step, resolvers>>

\* A browser redirects. Whoever has the port gets the code, whose ever it is.
Redirect(s) ==
    /\ s \in linked
    /\ redirects[s] < MaxRedirects
    /\ redirects' = [redirects EXCEPT ![s] = @ + 1]
    /\ IF port \in Sessions THEN Receive(port, s)
                            ELSE UNCHANGED <<flow, pending, step, codes, resolvers>>
    /\ UNCHANGED <<port, linked, asked, refused>>

\* Another program takes or leaves the port.
Foreign ==
    /\ port \in {None, Other}
    /\ port' = IF port = None THEN Other ELSE None
    /\ UNCHANGED <<flow, pending, step, codes, resolvers, linked, asked, redirects, refused>>

----------------------------------------------------------------------------
Run(s) == Listen(s) \/ Succeed(s) \/ Fail(s)
Prompter(s) == (\E what \in {"link", "working"} : Show(s, what)) \/ \E kind \in Kinds : Ask(s, kind)
Answers(s) == Respond(s) \/ RespondInvalid(s)

Next ==
    \/ \E s \in Sessions : Start(s) \/ Run(s) \/ Prompter(s) \/ Answers(s) \/ Redirect(s)
    \/ Foreign

Spec == Init /\ [][Next]_vars

----------------------------------------------------------------------------
(* Properties                                                              *)

Stages == {"new", "starting", "applying", "completed", "error"}

\* Every variable has its type, and a session that can be asked for has a step to show.
TypeOK ==
    /\ flow \in [Sessions -> Stages \cup Kinds]
    /\ pending \in [Sessions -> Kinds \cup {"none"}]
    /\ step \in [Sessions -> Kinds \cup {"none", "working", "link", "completed", "error"}]
    /\ codes \in [Sessions -> Sessions \cup {None}]
    /\ resolvers \subseteq Sessions /\ linked \subseteq Sessions /\ refused \subseteq Sessions
    /\ port \in Sessions \cup {None, Other}
    /\ asked \in [Sessions -> 0..MaxPrompts]
    /\ redirects \in [Sessions -> 0..MaxRedirects]
    /\ \A s \in Sessions : step[s] = "none" => flow[s] = "new"

\* The user sees the prompt that the flow waits for, and respond() takes the answer to that
\* prompt and to no other, whichever of answer and redirect came first; only a sign-in of
\* which an answer was refused may wait for an answer that respond() does not take.
ScreenFlowAndResponseAgree ==
    \A s \in Sessions :
        /\ Waiting(s) => /\ step[s] = flow[s]
                         /\ pending[s] = flow[s] \/ (pending[s] = "none" /\ s \in refused)
        /\ ~Waiting(s) => pending[s] = "none" /\ step[s] \notin Kinds

\* A redirect answers nothing but a code prompt that waits: one that comes after the code was
\* pasted, or after the flow went on, does not take another prompt's pendingResponse.
RedirectsAnswerCodePrompts == \A s \in resolvers : flow[s] = "code"

\* A code that came early is used: no flow waits for a code that is there.
EarlyCodesAreUsed == \A s \in Sessions \ refused : flow[s] = "code" => codes[s] = None

\* Every code meets the prompt it is for, whichever came first, and no other.
CodesMeetTheirPrompts == RedirectsAnswerCodePrompts /\ EarlyCodesAreUsed

\* The callback port is held by a sign-in under way: one that has ended, in whatever way,
\* does not swallow the redirect of the next, and keeps no code.
EndedSignInsLetGo ==
    \A s \in Sessions : flow[s] \in {"new", "starting", "completed", "error"} =>
        port # s /\ s \notin resolvers /\ codes[s] = None

\* "This sign-in flow is not waiting for input." (respond): when respond() says so, the flow
\* is not waiting for input.
RefusedOnlyWhenNotWaiting == \A s \in Sessions : pending[s] = "none" => ~Waiting(s)
====
