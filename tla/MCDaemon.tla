------------------------------ MODULE MCDaemon ------------------------------
(* Model-checking instances of Daemon. *)
EXTENDS Daemon

\* Two clients that want control, one to play and one to give it up again.
Rivals == ("a" :> {"part", "acquire_control", "play"})
          @@ ("b" :> {"acquire_control", "release_control", "stop"})

\* One that plays, changes the target and shuts down, and one that only asks.
Few == ("a" :> {"acquire_control", "play", "select_target", "shutdown"}) @@ ("b" :> {"status"})

\* One client that asks while a track plays.
Watcher == "a" :> {"acquire_control", "play", "status"}
=============================================================================
