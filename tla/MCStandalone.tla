---------------------------- MODULE MCStandalone ----------------------------
(***************************************************************************)
(* The parts that neither call each other nor share state.  Interleaving   *)
(* them would show nothing that each does not show alone: part picks one,  *)
(* and the others stay as they are.                                        *)
(***************************************************************************)
EXTENDS BlockCache, Console, VideoMemory, SystemCalls, Shell, InputPath, TLC

VARIABLE part

S == "/"
C == "C:"
MCPaths ==
    {<<"..">>, <<S>>, <<".">>, <<"bin">>, <<"home">>, <<S, "admin">>, <<S, S>>}

MCInitialChildren ==
    (<<C, S>> :> {<<"bin">>, <<"home">>}) @@ (<<C, S, "bin">> :> {})
        @@ (<<C, S, "home">> :> {<<"admin">>}) @@ (<<C, S, "home", S, "admin">> :> {})

MCInitialFiles == {<<C, S, "bin", S, "system.cfg">>}

states == <<block_cache, consoleVars, vramVars, callVars, shellVars, pathVars>>

(* No step of InputPath reads a line's mask or interrupts_disabled, and    *)
(* every step of a state can be taken in a state that differs from it only *)
(* there, with the same effect on all the rest.                            *)
View ==
    <<part, block_cache, consoleVars, vramVars, callVars, shellVars,
      [irq \in Lines |-> <<handlers[irq].handler, handlers[irq].handled_count>>],
      total_interrupts, manager, history, uncounted>>

(* next is a step of the part, and the others are all the other variables. *)
Only(name, next, others) == part = name /\ next /\ UNCHANGED others

StandaloneInit ==
    /\ part \in {"blocks", "console", "textures", "calls", "shell", "input"}
    /\ CacheInit /\ ConsoleInit /\ TexturesInit /\ CallsInit /\ ShellInit /\ PathInit

StandaloneNext ==
    /\ UNCHANGED part
    /\ \/ Only("blocks", CacheNext,
               <<consoleVars, vramVars, callVars, shellVars, pathVars>>)
       \/ Only("console", ConsoleNext,
               <<block_cache, vramVars, callVars, shellVars, pathVars>>)
       \/ Only("textures", TexturesNext,
               <<block_cache, consoleVars, callVars, shellVars, pathVars>>)
       \/ Only("calls", CallsNext,
               <<block_cache, consoleVars, vramVars, shellVars, pathVars>>)
       \/ Only("shell", ShellNext,
               <<block_cache, consoleVars, vramVars, callVars, pathVars>>)
       \/ Only("input", PathNext,
               <<block_cache, consoleVars, vramVars, callVars, shellVars>>)

StandaloneSpec == StandaloneInit /\ [][StandaloneNext]_<<part, states>>
=============================================================================
