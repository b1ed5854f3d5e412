---------------------------- MODULE SystemServer ----------------------------
(***************************************************************************)
(* SystemServer.java: main and ServerThread.initAndLoop.  The main thread  *)
(* makes some eighty services in a fixed order, under exception handlers   *)
(* of three kinds, and then tells them that the system is ready.  The code *)
(* is the table below, one entry per service; a constructor, a registration*)
(* or a hook may throw.                                                    *)
(***************************************************************************)
EXTENDS StartUp, Integers, Sequences, FiniteSets, SequencesExt, FiniteSetsExt

CONSTANT ServerConfigs   \* the sets of things that are disabled

\* try: "bootstrap" and "core" are the two long try blocks (RuntimeException,
\* which skips the rest of the block), "own" a block of its own (Throwable),
\* "none" no block at all.  op: "make" assigns and registers a service, "tell"
\* calls hook h of a service, "telln" does so after a null check, "do" is any
\* other call.  needs: variables the step dereferences.  on: what disables it.
Step(try, op, svc, h, needs, on) ==
    [try |-> try, op |-> op, svc |-> svc, h |-> h, needs |-> needs, on |-> on]

Make(try, svc, needs, on) == Step(try, "make", svc, "", needs, on)

Call(try, what, needs, on) == Step(try, "do", what, "", needs, on)

Tell1(try, svc, h) == Step(try, "tell", svc, h, {svc}, "always")

TellN(svc, h) == Step("own", "telln", svc, h, {svc}, "always")

Makes(try, svcs, on) == [i \in DOMAIN svcs |-> Make(try, svcs[i], {}, on)]

Bootstrap ==
    <<Call("none", "main", {}, "always")>>
    \o Makes("bootstrap", <<"installer", "power", "context">>, "always")

Core ==
    Makes("core", <<"display", "telephonyRegistry", "schedulingPolicy">>, "always")
    \o <<Call("core", "waitForDefaultDisplay", {"display"}, "always"),
         Make("core", "pm", {}, "always"),
         Call("core", "isFirstBoot", {"pm"}, "always")>>
    \o Makes("core", <<"entropy", "user">>, "always")
    \o <<Call("core", "getContentResolver", {"context"}, "always"),
         Make("own", "accountManager", {}, "always")>>
    \o Makes("core", <<"contentService", "providers", "lights", "battery", "vibrator",
                       "consumerIr">>, "always")
    \o <<Step("core", "tell", "power", "init", {"power"}, "always"),
         Make("core", "alarm", {}, "always"),
         Call("core", "watchdog.init", {}, "always"),
         Make("core", "inputManager", {}, "always"),
         Make("core", "wm", {}, "always"),
         Call("core", "setWindowManagerCallbacks", {"inputManager", "wm"}, "always"),
         Step("core", "tell", "inputManager", "start", {"inputManager"}, "always"),
         Call("core", "setWindowManager", {"display"}, "always"),
         Make("core", "bluetooth", {"context"}, "bluetooth")>>

Ui ==
    Makes("own", <<"imm", "accessibility">>, "lowlevel")
    \o <<Tell1("own", "wm", "displayReady"),
         Call("own", "performBootDexOpt", {"pm"}, "always"),
         Call("none", "showBootMessage", {"context"}, "always"),
         Make("own", "mountService", {}, "storage")>>
    \o Makes("own", <<"lockSettings", "devicePolicy">>, "noncore")
    \o Makes("own", <<"statusBar">>, "systemui")
    \o Makes("own", <<"clipboard">>, "noncore")

Network ==
    Makes("own", <<"networkManagement">>, "network")
    \o Makes("own", <<"tsms">>, "noncore")
    \o Makes("own", <<"networkStats", "networkPolicy", "wifiP2p", "wifi">>, "network")
    \o <<Make("own", "connectivity", {}, "network"),
         Call("own", "bindConnectivityManager",
              {"connectivity", "networkStats", "networkPolicy", "wifiP2p", "wifi"}, "network"),
         Make("own", "serviceDiscovery", {}, "network"),
         Make("own", "updateLock", {}, "noncore"),
         Step("none", "telln", "mountService", "waitForAsecScan", {"mountService"}, "onlyCore"),
         Step("own", "telln", "accountManager", "systemReady", {"accountManager"}, "lowlevel"),
         Step("own", "telln", "contentService", "systemReady", {"contentService"}, "lowlevel"),
         Make("own", "notification", {}, "lowlevel"),
         Call("own", "bindNotificationManager", {"notification", "networkPolicy"}, "lowlevel"),
         Make("own", "deviceStorage", {}, "lowlevel")>>

Others ==
    Makes("own", <<"location", "countryDetector">>, "location")
    \o Makes("own", <<"search">>, "noncore")
    \o Makes("own", <<"dropbox">>, "lowlevel")
    \o <<Call("none", "config_enableWallpaperService", {"context"}, "noncore"),
         Make("own", "wallpaper", {}, "wallpaper"),
         Make("own", "audio", {}, "media"),
         Make("own", "dock", {}, "noncore"),
         Call("own", "setWiredAccessoryCallbacks", {"inputManager"}, "media")>>
    \o Makes("own", <<"usb", "serial">>, "noncore")
    \o Makes("own", <<"twilight", "uiMode">>, "lowlevel")

Extras ==
    Makes("own", <<"backup", "appWidget", "recognition">>, "noncore")
    \o Makes("own", <<"diskstats", "samplingprofiler">>, "lowlevel")
    \o Makes("own", <<"networkTimeUpdater">>, "network")
    \o Makes("own", <<"commonTimeMgmtService">>, "media")
    \o Makes("own", <<"certBlacklister">>, "network")
    \o <<Call("none", "config_dreamsSupported", {"context"}, "noncore"),
         Make("own", "dreamy", {}, "noncore"),
         Make("own", "atlas", {}, "noncore")>>
    \o Makes("own", <<"idleMaintenance", "printManager">>, "lowlevel")
    \o Makes("own", <<"mediaRouter">>, "noncore")

Ready ==
    <<Call("none", "detectSafeMode", {"wm"}, "always"),
      Tell1("own", "vibrator", "systemReady"),
      TellN("lockSettings", "systemReady"), TellN("devicePolicy", "systemReady"),
      TellN("notification", "systemReady"), Tell1("own", "wm", "systemReady"),
      Call("none", "updateConfiguration", {"wm", "context"}, "always"),
      Tell1("own", "power", "systemReady"), Tell1("own", "pm", "systemReady"),
      Tell1("own", "display", "systemReady"),
      Call("none", "thirdParty", {}, "always")>>

\* The callback of ActivityManagerService.systemReady: first some services hear
\* that the system is ready, then others that applications may be run.
MakingReady ==
    LET readies == <<"mountService", "battery", "networkManagement", "networkStats",
                     "networkPolicy", "connectivity", "dock", "usb", "twilight",
                     "uiMode", "recognition">>
    IN  <<Call("own", "startObservingNativeCrashes", {}, "always"),
          Call("none", "startSystemUi", {"context"}, "headless")>>
        \o [i \in DOMAIN readies |-> TellN(readies[i], "systemReady")]
        \o <<Call("none", "watchdog.start", {}, "always")>>

NotifyingRunning ==
    LET runs == <<"appWidget", "wallpaper", "imm", "location", "countryDetector",
                  "networkTimeUpdater", "commonTimeMgmtService", "tsms", "dreamy",
                  "atlas", "inputManager", "telephonyRegistry", "printManager",
                  "mediaRouter">>
    IN  [i \in DOMAIN runs |-> TellN(runs[i], "systemRunning")]

initAndLoop == Bootstrap \o Core \o Ui \o Network \o Others \o Extras \o Ready
               \o MakingReady \o NotifyingRunning

-----------------------------------------------------------------------------
Hooks == {<<initAndLoop[i].svc, initAndLoop[i].h>> :
             i \in {j \in DOMAIN initAndLoop : initAndLoop[j].op \in {"tell", "telln"}}}

\* Most of what can be disabled is left out in a low-level factory test too.
Skipped(p) ==
    \/ p.on \in which.off
    \/ p.on \notin {"always", "headless"} /\ "lowlevel" \in which.off
    \/ p.on = "wallpaper" /\ which.off \cap {"noncore", "headless"} # {}
    \/ p.op = "telln" /\ p.svc \notin st.made

\* The first step behind a long try block.
Behind(try) == Len(Bootstrap) + 1 + IF try = "core" THEN Len(Core) ELSE 0

GoTo(s, i) == [s EXCEPT !.step = i,
                        !.phase = IF i > Len(initAndLoop) THEN "looping" ELSE @]

\* An exception thrown at step i: where the server goes on, if it does.
Thrown(s, i, error) ==
    LET try == initAndLoop[i].try IN
    CASE try = "own" -> GoTo(s, i + 1)
      [] try \in {"bootstrap", "core"} /\ ~error -> GoTo(s, Behind(try))
      [] OTHER -> [s EXCEPT !.phase = "died"]

\* What the step does once it has not thrown.
Effect(s, p) ==
    CASE p.op = "make" -> [s EXCEPT !.made = @ \cup {p.svc}]
      [] p.op \in {"tell", "telln"} -> [s EXCEPT !.told[<<p.svc, p.h>>] = @ + 1]
      [] p.svc = "thirdParty" ->
            Uses(s, "core services", {"power", "context", "display", "pm", "battery",
                                      "alarm", "inputManager", "wm"} \subseteq s.made)
      [] OTHER -> s

Current == initAndLoop[st.step]

SkipStep ==
    /\ Runs("server") /\ Skipped(Current)
    /\ st' = GoTo(st, st.step + 1)
    /\ UNCHANGED <<which, fails>>

RunStep ==
    /\ Runs("server") /\ ~Skipped(Current)
    /\ Current.needs \subseteq st.made
    /\ st' = GoTo(Effect(st, Current), st.step + 1)
    /\ UNCHANGED <<which, fails>>

\* Known to dereference null: the notification service is made with the network
\* disabled, and bound to the network policy that is not.  Caught on the spot.
NullKnown(p) == p.svc = "bindNotificationManager" /\ "network" \in which.off

\* A null dereference: of something that an earlier failure left unmade, or a
\* mistake in the order or in the conditions of the steps.
NullStep ==
    /\ Runs("server") /\ ~Skipped(Current)
    /\ ~(Current.needs \subseteq st.made)
    /\ st' = Thrown(Uses(st, Current.svc, fails < MaxFailures \/ NullKnown(Current)), st.step, FALSE)
    /\ UNCHANGED <<which, fails>>

\* The constructor or the hook throws, or the registration behind it does.
FailStep ==
    /\ Runs("server") /\ ~Skipped(Current)
    /\ Current.needs \subseteq st.made
    /\ Fails
    /\ \E error, late \in BOOLEAN :
          st' = Thrown(IF late THEN Effect(st, Current) ELSE st, st.step, error)
    /\ UNCHANGED which

ServerInit ==
    \E c \in ServerConfigs :
        /\ which = [kind |-> "server", off |-> c]
        /\ st = [phase |-> "running", misused |-> {}, told |-> [x \in Hooks |-> 0],
                 step |-> 1, made |-> {}]
        /\ fails = MaxFailures

ServerThread == SkipStep \/ RunStep \/ NullStep

ServerNext == ServerThread \/ FailStep

ServerFairness == WF_startVars(ServerNext)
=============================================================================
