-------------------------------- MODULE MCTui --------------------------------
(* Sessions of a user at the terminal front end: editing breakpoints and   *)
(* watchpoints in every panel and running by every key, leaving and coming *)
(* back, and changing the speed of a run.                                  *)
EXTENDS Tui

MCAddrs == {"a0", "a1", "a2"}
(* The walk: a0 calls a1, whose return is a2; a1 writes x, a2 reads it.    *)
MCFlow == [a0 |-> "a1", a1 |-> "a2", a2 |-> "a0"]
MCReturns == [a0 |-> "a2"]
MCLineOf == [a0 |-> 10, a1 |-> Absent, a2 |-> 11]
MCTouch == [a0 |-> {}, a1 |-> {<<"x", "write">>}, a2 |-> {<<"x", "read">>}]
MCPresets == <<0, 5, 12>>

ArrayFile == [addrs |-> {"a1"}, hz |-> 0]
SavedFile(speed) ==
  Saved([a0 |-> Absent, a1 |-> newBP("a1", "plain"), a2 |-> newBP("a2", "cond")],
        NoWatch, speed)

With(keys, kinds, where) ==
  [keys |-> keys, kinds |-> kinds, where |-> where, watched |-> {}, speeds |-> {},
   files |-> {Newer, SavedFile(0)}]

(* Every way to edit, idle and during a run. *)
Editing == With({"r", "tick", "b", "B", ":bp"}, {"plain", "once"}, {"a1", "a2"})
(* Runs to an address, past and over other breakpoints. *)
RunningTo == With({"r", "tick", ":run", "B", "syms"}, {"plain"}, {"a1", "a2"})
(* Modifiers, PC moved, single keys that run. *)
Stepping == With({"r", "tick", ":bp", "s", "S", "n", "f", ":pc", "R"}, Kinds, {"a1", "a2"})
(* Watchpoints, set and removed during runs. *)
Watching ==
  [With({"r", "tick", ":bpw", ":run", "S", "-run-on-start"}, {"plain"}, {"a1"})
     EXCEPT !.watched = {"x"}]
(* Leaving and coming back. *)
Returning ==
  [With({"q", "ctrl+c", "crash", ":bp", ":bp miss", "B", ":bpw", ":run"},
        {"plain", "cond"}, {"a1"})
     EXCEPT !.watched = {"x"}, !.files = @ \cup {ArrayFile}]
(* Speeds. *)
Throttling ==
  [With({"r", "tick", "+", ":speed"}, {}, {})
     EXCEPT !.speeds = {0, 7, 40}, !.files = {SavedFile(5)}]

MCSessions == {Editing, RunningTo, Stepping, Watching, Returning, Throttling}
==============================================================================
