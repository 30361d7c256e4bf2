------------------------------ MODULE MCPanel ------------------------------
(***************************************************************************)
(* The parts that the PC panel drives over the serial port, for TLC: the    *)
(* command queue, the chat page, the configuration of the language model,   *)
(* the mirror, and the splitter of the modem's bytes.  They share no        *)
(* variable, so nothing is lost by letting one of them move at a time:      *)
(* focus says which, for a whole behaviour.                                 *)
(***************************************************************************)
EXTENDS Chat, LlmConfig, SerialQueue, Mirror, EspStream

CONSTANTS Foci, MaxPixels

VARIABLE focus

panelVars ==
  <<focus, chatVars, configVars, queueVars, mirrorVars, streamVars>>

(* Payloads that imitate what the splitter looks for, and one of each       *)
(* boundary size; lines with its bytes inside, and of each boundary size.   *)
Imitations == {<<>>, <<Lf>>, <<Greater>>, <<Ipd, 1, Colon>>, <<Nul, Cr, Lf>>}
Filled(n) == [i \in 1 .. n |-> Letter]
MCPayloads == Imitations \cup {Filled(9), Filled(10), Filled(DataMax),
                               Filled(DataMax + 1)}
MCResponses == {<<>>, <<Letter>>, <<Letter, Greater>>, <<Letter, Ipd>>, <<1, Colon>>,
                <<Letter, Nul>>, <<Cr, Letter>>, Filled(LineMax - 1),
                Filled(LineMax)}

AllPictures == UNION {[1 .. n -> Pixels] : n \in 1 .. MaxPixels}

PanelInit ==
  /\ focus \in Foci
  /\ ChatInit /\ QueueInit /\ MirrorInit /\ StreamInit
  /\ ConfigInit
  /\ focus # "chat" => page = "warn"
  /\ focus # "config" => config = Absent
  /\ focus # "stream" => multiple = FALSE

PanelNext ==
  /\ UNCHANGED focus
  /\ \/ /\ focus = "chat" /\ ChatNext
        /\ UNCHANGED <<configVars, queueVars, mirrorVars, streamVars>>
     \/ /\ focus = "config" /\ ConfigNext
        /\ UNCHANGED <<chatVars, queueVars, mirrorVars, streamVars>>
     \/ /\ focus = "queue" /\ QueueNext
        /\ UNCHANGED <<chatVars, configVars, mirrorVars, streamVars>>
     \/ /\ focus = "mirror" /\ MirrorNext
        /\ UNCHANGED <<chatVars, configVars, queueVars, streamVars>>
     \/ /\ focus = "stream" /\ StreamNext
        /\ UNCHANGED <<chatVars, configVars, queueVars, mirrorVars>>

PanelSpec ==
  /\ PanelInit /\ [][PanelNext]_panelVars
  /\ focus = "chat" => ChatFairness
=============================================================================
