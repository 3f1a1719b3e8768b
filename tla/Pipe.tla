-------------------------------- MODULE Pipe --------------------------------
(***************************************************************************)
(* What USBQ promises for one endpoint in one direction: a pipe that may   *)
(* lose payloads but never repeats, invents or reorders one.               *)
(***************************************************************************)
EXTENDS Naturals, Sequences

VARIABLES put,      \* payloads put in; they are numbered 1, 2, ...
          transit,  \* payloads in the pipe, oldest first
          got       \* payloads that came out

pipeVars == <<put, transit, got>>

PipeInit == put = 0 /\ transit = <<>> /\ got = <<>>

Put == /\ put' = put + 1
       /\ transit' = Append(transit, put')
       /\ UNCHANGED got

Get == /\ transit # <<>>
       /\ got' = Append(got, Head(transit))
       /\ transit' = Tail(transit)
       /\ UNCHANGED put

\* the payloads i..j of the pipe are lost
Lose(i, j) == /\ transit' = SubSeq(transit, 1, i - 1) \o SubSeq(transit, j + 1, Len(transit))
              /\ UNCHANGED <<put, got>>

PipeNext == \/ Put
            \/ Get
            \/ \E i, j \in DOMAIN transit : i <= j /\ Lose(i, j)

\* the payload j overtakes those from the place i on; PipeNext does not allow it
Overtake == \E i, j \in DOMAIN transit :
    /\ i < j
    /\ transit' = SubSeq(transit, 1, i - 1) \o <<transit[j]>> \o SubSeq(transit, i, j - 1)
                      \o SubSeq(transit, j + 1, Len(transit))
    /\ UNCHANGED <<put, got>>

PipeSpec == PipeInit /\ [][PipeNext]_pipeVars
=============================================================================
