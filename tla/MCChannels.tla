----------------------------- MODULE MCChannels -----------------------------
(* What processes exchange bytes through: pipes, the console and message    *)
(* queues.  One part per behaviour, chosen at the start: the states of the  *)
(* parts add up and do not multiply.                                        *)
EXTENDS Pipe, Console, Ipc, TLC

VARIABLE part

channelsVars == <<part, pipeVars, conVars, ipcVars>>

Selectors == {1, -2}

Symmetry == Permutations(Writers) \cup Permutations(Bytes) \cup Permutations(IpcProcs)

ChannelsInit ==
    /\ part \in {"pipe", "console", "ipc"}
    /\ PipeInit /\ ConsoleInit /\ IpcInit
    /\ part # "pipe" => \E b \in Bytes : data = [k \in DOMAIN data |-> b]

ChannelsNext ==
    \/ part = "pipe" /\ PipeNext /\ UNCHANGED <<part, conVars, ipcVars>>
    \/ part = "console" /\ ConsoleNext /\ UNCHANGED <<part, pipeVars, ipcVars>>
    \/ part = "ipc" /\ IpcNext /\ UNCHANGED <<part, pipeVars, conVars>>

ChannelsSpec == ChannelsInit /\ [][ChannelsNext]_channelsVars
=============================================================================
