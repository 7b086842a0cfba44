------------------------------ MODULE WebServer ------------------------------
(***************************************************************************)
(* The webserver manager (internal/webserver/manager.go) and the           *)
(* WebServer with its components and routes (server.go, routes.go).        *)
(*                                                                         *)
(* The manager serves the router of the WebServer by an http.Server of its *)
(* own.  WebServer.Start, which would serve it too, is not called by the   *)
(* manager; it holds ws.mutex for as long as it serves.  Every other       *)
(* operation is one step under m.mutex, ws.mutex or both.                  *)
(***************************************************************************)
EXTENDS FiniteSets

CONSTANTS
    AppComponents,  \* registered from outside, when anybody likes
    SetupMayFail    \* BOOLEAN: a component's SetupRoutes may return an error

Signaling == "signaling"

ASSUME WebAssumption == Signaling \notin AppComponents /\ SetupMayFail \in BOOLEAN

WebComponents == AppComponents \cup {Signaling}

VARIABLES
    mgrRunning,   \* m.running
    sigRunning,   \* the signaling server runs
    components,   \* ws.components
    routes,       \* the components ws.router has the routes of
    served,       \* those the handler of m.server has the routes of
    isRouter,     \* that handler is ws.router
    listening,    \* m.server listens
    wsRunning,    \* ws.running
    serving,      \* WebServer.Start serves, and holds ws.mutex
    broken,       \* history: a setup of routes failed for the handler of m.server
    later         \* history: components registered since m.server was made

webVars == <<mgrRunning, sigRunning, components, routes, served, isRouter, listening,
             wsRunning, serving, broken, later>>

registryVars == <<components, routes>>
handlerVars  == <<served, isRouter, broken>>
runVars      == <<mgrRunning, sigRunning, listening>>
ownVars      == <<wsRunning, serving>>

WebTypeOK ==
    /\ {components, routes, served, later} \subseteq SUBSET WebComponents
    /\ {mgrRunning, sigRunning, isRouter, listening, wsRunning, serving, broken} \subseteq BOOLEAN

WebInit ==
    /\ mgrRunning = FALSE /\ sigRunning = FALSE
    /\ components = {} /\ routes = {}
    /\ served = {} /\ isRouter = FALSE /\ listening = FALSE
    /\ wsRunning = FALSE /\ serving = FALSE
    /\ broken = FALSE /\ later = {}

-----------------------------------------------------------------------------
(* The WebServer.                                                          *)

\* The routes of a fresh router.  The components come in any order, and those after one
\* that fails are left out; the server goes on.
SetupRoutes(registered) ==
    {registered} \cup IF SetupMayFail THEN {R \in SUBSET registered : R # registered} ELSE {}

\* What a component's own routes are added to.
AddRoutes(c) ==
    /\ routes' = routes \cup {c}
    /\ served' = IF isRouter THEN served \cup {c} ELSE served

\* A component is routed at once only by a WebServer that runs; if that fails it is not
\* registered.
RegisterComponent(c) ==
    /\ ~serving /\ c \notin components
    /\ \/ /\ ~wsRunning
          /\ components' = components \cup {c}
          /\ UNCHANGED <<routes, served>>
       \/ /\ wsRunning
          /\ components' = components \cup {c}
          /\ AddRoutes(c)
       \/ wsRunning /\ SetupMayFail /\ UNCHANGED <<components, routes, served>>
    /\ later' = later \cup {c}
    /\ UNCHANGED <<runVars, isRouter, ownVars, broken>>

\* The routes stay.
UnregisterComponent(c) ==
    /\ ~serving /\ c \in components
    /\ components' = components \ {c}
    /\ UNCHANGED <<routes, runVars, handlerVars, ownVars, later>>

\* WebServer.Start: it runs from now on, also when it cannot listen.
StartServing ==
    /\ ~serving
    /\ \E R \in SetupRoutes(components) : routes' = R
    /\ isRouter' = FALSE
    /\ wsRunning' = TRUE
    /\ serving' \in BOOLEAN
    /\ UNCHANGED <<components, served, broken, runVars, later>>

\* WebServer.Stop waits for ws.mutex: a server that serves is never told.
StopServing ==
    /\ ~serving
    /\ wsRunning' = FALSE
    /\ UNCHANGED <<registryVars, handlerVars, runVars, serving, later>>

-----------------------------------------------------------------------------
(* The manager.                                                            *)

\* The certificate is not named.
StartRefused == ~mgrRunning /\ UNCHANGED webVars

\* The signaling server runs already, left by a start that failed.
StartSignalingFails == ~mgrRunning /\ sigRunning /\ UNCHANGED webVars

\* It is registered already: the manager ran before, or failed to.  Or its routes cannot
\* be set up at once.  It is left running.
StartRegisterFails ==
    /\ ~mgrRunning /\ ~sigRunning /\ ~serving
    /\ Signaling \in components \/ (wsRunning /\ SetupMayFail)
    /\ sigRunning' = TRUE
    /\ UNCHANGED <<mgrRunning, listening, registryVars, handlerVars, ownVars, later>>

\* Mutant: the handler is taken before the signaling server is registered.
HandlerComponentsEarly == components

\* GetHandler comes after RegisterComponent.
HandlerComponents == components \cup {Signaling}

\* The server listens; or an error comes within 100 ms, and the signaling server is left
\* running and registered.
StartManager ==
    /\ ~mgrRunning /\ ~sigRunning /\ ~serving
    /\ Signaling \notin components
    /\ sigRunning' = TRUE
    /\ components' = components \cup {Signaling}
    /\ \E R \in SetupRoutes(HandlerComponents) :
          /\ routes' = R
          /\ served' = R
          /\ broken' = (R # HandlerComponents)
    /\ isRouter' = TRUE
    /\ later' = {}
    /\ mgrRunning' \in BOOLEAN
    /\ listening' = mgrRunning'
    /\ UNCHANGED ownVars

\* An error that comes later goes to a channel nobody reads.
ListenFailsLate ==
    /\ mgrRunning /\ listening
    /\ listening' = FALSE
    /\ UNCHANGED <<mgrRunning, sigRunning, registryVars, handlerVars, ownVars, later>>

\* The signaling server stays registered.
StopManager ==
    /\ mgrRunning
    /\ mgrRunning' = FALSE /\ sigRunning' = FALSE /\ listening' = FALSE
    /\ UNCHANGED <<registryVars, handlerVars, ownVars, later>>

\* A new WebServer, without the components of the one before.
UpdateConfig ==
    /\ ~mgrRunning
    /\ components' = {} /\ routes' = {}
    /\ isRouter' = FALSE
    /\ wsRunning' = FALSE /\ serving' = FALSE
    /\ UNCHANGED <<runVars, served, broken, later>>

WebNext ==
    \/ \E c \in AppComponents : RegisterComponent(c) \/ UnregisterComponent(c)
    \/ StartServing \/ StopServing
    \/ StartRefused \/ StartSignalingFails \/ StartRegisterFails
    \/ StartManager \/ ListenFailsLate \/ StopManager \/ UpdateConfig

WebSpec == WebInit /\ [][WebNext]_webVars

-----------------------------------------------------------------------------
(* Properties.                                                             *)

\* A manager that runs has the signaling server and serves the routes of every component
\* that was registered when it started, whatever failed, was stopped or was configured
\* before; not if a setup of routes failed, which only the log tells.
RunningServesComponents ==
    mgrRunning /\ ~broken =>
        sigRunning /\ Signaling \in served /\ components \ later \subseteq served

=============================================================================
