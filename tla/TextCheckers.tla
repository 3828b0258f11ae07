---------------------------- MODULE TextCheckers ----------------------------
(***************************************************************************)
(* The two programs that judge a text: activation-check, of the module     *)
(* ActivationReplay, and transcript-check, of ObservationModel.  A user    *)
(* runs one of them on a text of its kind; they share nothing.             *)
(***************************************************************************)
EXTENDS ActivationReplay, ObservationModel

VARIABLE program        \* which one is run

checkerVars == <<vars, transcriptVars, program>>

CheckersInit == /\ Init /\ TranscriptInit
                /\ program \in {"activation-check", "transcript-check"}

ActivationCheck ==
  program = "activation-check" /\ Next /\ UNCHANGED <<transcriptVars, program>>

TranscriptCheck ==
  program = "transcript-check" /\ TranscriptNext /\ UNCHANGED <<vars, program>>

\* Either program is one thread that goes on while it can; nothing is asked of
\* the text.
CheckersSpec ==
  /\ CheckersInit
  /\ [][ActivationCheck \/ TranscriptCheck]_checkerVars
  /\ WF_checkerVars(ActivationCheck /\ ReplayStep)
=============================================================================
