---------------------------- MODULE MCCourseRec ----------------------------
(* CourseRec for TLC. *)
EXTENDS CourseRec
=============================================================================
