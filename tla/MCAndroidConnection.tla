------------------------ MODULE MCAndroidConnection ------------------------
(* Instances of AndroidConnection for TLC: a few connect() and disconnect()  *)
(* calls, numbered and named by the configurations.                          *)
EXTENDS AndroidConnection
=============================================================================
