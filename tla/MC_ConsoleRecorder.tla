------------------------ MODULE MC_ConsoleRecorder ------------------------
(***************************************************************************)
(* Small instances of ConsoleRecorder and ShellTerminal for TLC.  The two  *)
(* share no variable: in a behaviour one of them is at rest.               *)
(***************************************************************************)
EXTENDS ConsoleRecorder, ShellTerminal

\* ConsoleRecorder

Scenario(ks, cs, ch, starts, presses, fs) ==
    [kinds |-> ks, commands |-> cs, chunks |-> ch, starts |-> starts,
     keys |-> presses, faults |-> fs]

\* Output under rollouts and truncates; commands at the start and end of recorders;
\* suggestions; and what a kill or an error leaves behind.
NoScenario == Scenario({}, 0, 0, 0, 0, 0)
SomeScenarios ==
    {NoScenario,
     Scenario({"rollout", "truncate"}, 1, 3, 1, 0, 0),
     Scenario({"mute", "unmute", "rollout"}, 2, 0, 2, 0, 0),
     Scenario({"queue", "clear"}, 2, 1, 1, 2, 0),
     Scenario({"queue"}, 1, 0, 2, 2, 1),
     Scenario({"mute", "rollout"}, 1, 1, 2, 0, 1)}

\* ShellTerminal

Csi(ch, params) == Token("csi", ch, params)
SomeTokens ==
    {Token("char", ch, <<>>) : ch \in {"x", "long"}}
    \union {Token("control", ch, <<>>) : ch \in {"cr", "bs", "tab", "bel"}}
    \union {Token(kind, "bel", <<>>) : kind \in {"rubout", "newline", "title"}}
    \union {Token("title", "st", <<>>), Token("charset", "x", <<>>),
            Token("private", "h", <<2, 1>>)}
    \union {Csi(ch, <<>>) : ch \in {"A", "B", "C", "D", "s", "u", "K", "J", "H"}}
    \union {Csi(ch, <<n>>) : ch \in {"K", "J"}, n \in {1, 2}}
    \union {Csi("C", <<2>>), Csi("D", <<0>>), Csi("m", <<0, 1>>), Csi("H", <<1>>),
            Csi("H", <<2, 2>>)}

Room(ts, unreadTokens, ks) == [tokens |-> ts, pending |-> unreadTokens, keys |-> ks]
NoRoom == Room(0, 0, 0)
SomeRooms == {NoRoom, Room(2, 2, 0), Room(4, 1, 0), Room(0, 0, 5)}

-----------------------------------------------------------------------------
RecorderAtRest == Init /\ bound = NoScenario
TerminalAtRest == TerminalInit /\ room = NoRoom /\ aligned

MCInit ==
    \/ Init /\ TerminalAtRest
    \/ RecorderAtRest /\ TerminalInit
MCNext == (Next /\ UNCHANGED terminalVars) \/ (TerminalNext /\ UNCHANGED vars)
MCSpec == /\ MCInit /\ [][MCNext]_<<vars, terminalVars>>
          /\ WF_vars(RecorderRuns)

=============================================================================
