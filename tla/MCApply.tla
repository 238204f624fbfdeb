------------------------------ MODULE MCApply ------------------------------
(* Configuration files small enough to try every way of setting one group  *)
(* of fields in one app, and files of several apps for names, instances    *)
(* and dependencies.                                                       *)
EXTENDS Apply

CONSTANTS c1, c2

AppDir == <<"/", "app">>
Root   == <<"/">>

\* The layers that set only the fields in DOMAIN choices, each to one of its choices.
Layers(empty, choices) ==
    FoldSet(LAMBDA f, layers : {[l EXCEPT ![f] = v] : l \in layers, v \in choices[f]},
            {empty}, DOMAIN choices)

App(name, cmd, layer, profiles) ==
    [name |-> name, command |-> cmd, layer |-> layer, profiles |-> profiles]
Toml(defaults, apps) == [version |-> 1, defaults |-> defaults, apps |-> apps]
TomlSource(file, fromRoot) ==
    [toml |-> TRUE, file |-> file, profile |-> "prod", dir |-> AppDir, fromRoot |-> fromRoot]
EcoSource(file) ==
    [toml |-> FALSE, file |-> file, profile |-> "prod", dir |-> AppDir, fromRoot |-> TRUE]

\* One app, one group of fields: any app layer with any profile, over fixed defaults.
OneGroup(cmd, defaults, appChoices, profChoices) ==
    {TomlSource(Toml(defaults, <<App("web", cmd, a, "prod" :> p)>>), TRUE) :
        a \in Layers(EmptyLayer, appChoices), p \in Layers(EmptyLayer, profChoices)}
EcoGroup(appChoices, profChoices) ==
    {EcoSource([apps |-> <<App("web", NONE, a, "prod" :> p)>>]) :
        a \in Layers(EmptyEntry, appChoices), p \in Layers(EmptyEntry, profChoices)}

Numbers == [max_restarts |-> {NONE, 2}, stop_timeout_secs |-> {NONE, 0}]
WatchApp == [watch |-> {NONE, WatchFlag(TRUE), WatchList({"", "/src"}), WatchList({""})},
             watch_delay_secs |-> {3}, ignore_watch |-> {NONE, {"", "x"}}]
WatchProf == [watch |-> {NONE, WatchFlag(FALSE)}]
Cluster == [cluster_mode |-> {NONE, TRUE}, cluster_instances |-> {NONE, 0, 2}]
Health == [health_cmd |-> {NONE, "curl"}, health_interval_secs |-> {NONE, 0}]
Ready == [wait_ready |-> {NONE, TRUE}, ready_timeout_secs |-> {NONE, 0}]
Limits == [max_memory_mb |-> {NONE, 0, 64}, deny_gpu |-> {NONE, FALSE}]
Logs == [stdout |-> {NONE, <<"out">>}, combined |-> {NONE, <<"/", "all">>}]
Places == [cwd |-> {NONE, <<"~", "api">>, <<"$DIR">>, <<"sub">>},
           env |-> {NONE, "K" :> <<"$$", "5">>, "K" :> <<"$GONE">>, "J" :> <<"wide">>}]
Secrets == [pull_secret |-> {NONE, "", "s3cret"}, disabled |-> {NONE, TRUE}]

Def(choices) == CHOOSE l \in Layers(EmptyLayer, choices) :
                    \A f \in DOMAIN choices : l[f] # NONE
TomlFiles ==
    OneGroup(Plain, EmptyLayer, Numbers, Numbers)
    \cup OneGroup(Plain, Def([watch |-> {WatchFlag(TRUE)}, ignore_watch |-> {{"y"}}]),
                  WatchApp, WatchProf)
    \cup OneGroup(NodeApp, Def([cluster_instances |-> {3}]), Cluster,
                  [cluster_mode |-> {NONE, FALSE}, cluster_instances |-> {NONE, 0}])
    \cup OneGroup(NodeFlags, EmptyLayer, [cluster_mode |-> {TRUE}],
                  [cluster_mode |-> {NONE, FALSE}])
    \cup OneGroup(Plain, Def([health_interval_secs |-> {4}]), Health, Ready)
    \cup OneGroup(Plain, Def([max_memory_mb |-> {16}]), Limits, Limits)
    \cup OneGroup(Plain, Def([stderr |-> {<<"err">>}]), Logs, Logs)
    \cup OneGroup(Plain, Def([env |-> {"K" :> <<"base">>}]), Places,
                  [env |-> {NONE, "J" :> <<"lit">>}])
    \cup OneGroup(Plain, EmptyLayer, Secrets, [pull_secret |-> {NONE, "s3cret"}])

EcoFiles ==
    EcoGroup([cmd |-> {Plain}, kill_timeout |-> {NONE, 0}, stop_timeout |-> {NONE, 9},
              priority |-> {4}],
             [kill_timeout |-> {NONE, 3}, stop_timeout |-> {NONE, 0},
              start_order |-> {NONE, 1}])
    \cup EcoGroup([cmd |-> {NodeApp}, exec_mode |-> {NONE, "cluster"},
                   instances |-> {NONE, 2}, cluster_instances |-> {NONE, 0}],
                  [exec_mode |-> {NONE, "cluster", "fork"}, instances |-> {NONE, 2},
                   cluster_mode |-> {NONE, TRUE}])
    \cup EcoGroup([script |-> {Plain}, wait_ready |-> {NONE, TRUE},
                   listen_timeout |-> {0, 1500}, health_cmd |-> {NONE, "curl"},
                   deny_gpu |-> {NONE, TRUE}],
                  [health_interval |-> {NONE, 0}, max_memory_mb |-> {NONE, 0}])
    \cup EcoGroup([cmd |-> {Plain}, health |-> {[cmd |-> "nc", interval |-> NONE]},
                   max_memory_mb |-> {64}],
                  [health_cmd |-> {NONE, "curl"}, max_memory_restart |-> {NONE, 32}])
    \cup EcoGroup([cmd |-> {Plain}, watch |-> {NONE, WatchList({"", "lib"})},
                   watch_delay |-> {1001}, ignore_watch |-> {{"", "x"}},
                   log_file |-> {NONE, <<"all">>}, cwd |-> {NONE, <<"sub">>}],
                  [watch |-> {NONE, WatchFlag(FALSE)}, pull_secret |-> {NONE, "s3cret"}])
    \cup EcoGroup([cmd |-> {NONE}, out_file |-> {<<"/", "out">>}], [max_restarts |-> {2}])

\* Several apps: dependencies, cycles, instances, clashing and missing names.
Small(name, deps, order, n) ==
    App(name, IF name = "web" THEN NodeApp ELSE Plain,
        [EmptyLayer EXCEPT !.depends_on = deps, !.start_order = order, !.instances = n],
        <<>>)
Groups ==
    {<<Small("web", d1, o1, NONE), Small("db", d2, NONE, NONE), Small("job", d3, o3, NONE)>> :
        d1 \in {NONE, {"db", "gone"}}, d2 \in {{"job"}, {"db"}},
        d3 \in {NONE, {"web"}}, o1 \in {7}, o3 \in {0}}
    \cup {<<Small("web", NONE, NONE, i), Small(n, {"web"}, NONE, j)>> :
            i \in {1, 2}, j \in {NONE}, n \in {"db", "web-1", "web", "all", NONE}}
    \cup {<<Small("web", NONE, 9, 2), Small("job", {"web"}, 1, NONE), Small("web", NONE, 0, NONE)>>}
GroupFiles == {TomlSource(Toml(EmptyLayer, g), TRUE) : g \in Groups}

\* Files named from where the client runs.
RelativeSources ==
    {TomlSource(Toml(EmptyLayer,
        <<App("web", Plain, [EmptyLayer EXCEPT !.cwd = <<"sub">>], <<>>)>>), FALSE)}

MCSources == TomlFiles \cup EcoFiles \cup GroupFiles \cup RelativeSources

MCAlphabet == <<"all", "db", "job", "web", "web-1">>
MCVars == ("$DIR" :> <<"/", "data">>)

MCOptions == {[here |-> Root, only |-> {}, prune |-> FALSE],
              [here |-> Root, only |-> {}, prune |-> TRUE]}
PartOptions == {[here |-> Root, only |-> {"web"}, prune |-> p] : p \in BOOLEAN}
               \cup {[here |-> Root, only |-> {}, prune |-> FALSE]}

\* The table has the app of the empty file, whose process is down, and one of no file.
Entry0(name, up) ==
    [conf |-> Started(SpecOf([name |-> name, command |-> Plain],
                             Base(EmptyLayer, EmptyLayer, 0), Root)),
     up |-> up]
Symmetry == Permutations(Clients)
MCTables == {("web" :> Entry0("web", FALSE)) @@ ("old" :> Entry0("old", TRUE))}

\* These clients run in one directory, and mean the same by a name.
ASSUME MCOneReading == OneReading

\* Their files are what the types of the code say.
ASSUME MCEcoTyped == EcoTyped
=============================================================================
