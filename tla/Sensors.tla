------------------------------- MODULE Sensors -------------------------------
(***************************************************************************)
(* The goroutine that brings the main loop its frames: readToF or          *)
(* readSerial, after the -sensor flag.  A daemon starts one of them and    *)
(* never the other, so no step is a step of both.  RadarStream's names are *)
(* the serial reader's here, and ToF! stands before the other's.           *)
(***************************************************************************)
EXTENDS RadarStream

CONSTANTS Readings, Room, Happenings

VARIABLES
  process, on, token, reader, watcher, cancelled, enabled, last, frames, heard

ToF == INSTANCE ToFSensor

ASSUME SensorsAssumption == ToF!ToFAssumption /\ RadarAssumption

tofVars ==
  <<process, on, token, reader, watcher, cancelled, enabled, last, frames, heard>>

allVars == <<tofVars, vars>>

RunsToF == port = "none"

ReadersInit == \/ ToF!Init /\ Unused
               \/ Init /\ ToF!Unused

ReadersNext == \/ RunsToF /\ ToF!Next /\ UNCHANGED vars
               \/ ~RunsToF /\ Next /\ UNCHANGED tofVars

FairSpec ==
  ReadersInit /\ [][ReadersNext]_allVars /\ ToF!Fairness /\ Fairness

\* Every variable of either reader keeps its type.
TypeOK_Sensors == ToF!TypeOK /\ TypeOK

-----------------------------------------------------------------------------
(* ToFSensor says what these mean.  RadarStream's properties keep their    *)
(* names.                                                                  *)

\* A daemon that was stopped leaves the ToF sensor off (main.go:150).
StoppedLeavesItOff == ToF!StoppedLeavesItOff

\* An open gate ends with the ToF sensor being read (tof.go:118, 153).
WakesForTheDesk == ToF!WakesForTheDesk

\* A closed gate ends with the ToF sensor off (tof.go:127).
SleepsWhileTyping == ToF!SleepsWhileTyping

\* What the ToF sensor sees reaches the loop (tof.go:250).
NewsArrives == ToF!NewsArrives
=============================================================================
