---------------------------- MODULE CameraPacket -----------------------------
(***************************************************************************)
(* CameraInstruction, whose spline is all the versions differ in.          *)
(***************************************************************************)
EXTENDS GameTypes

CameraSet ==
  INT_LE \o Opt(BYTE \o FLOAT_LE) \o Opt(VEC3) \o Opt(VEC2) \o Opt(VEC3) \o Opt(VEC2)
  \o Opt(VEC3) \o Opt(BOOL) \o BOOL
CameraFade == Opt(Rep(3, FLOAT_LE)) \o Opt(Rep(3, FLOAT_LE))
CameraTarget == Opt(VEC3) \o INT64_LE
CameraFov == FLOAT_LE \o FLOAT_LE \o BYTE \o BOOL
CameraHead ==
  Opt(CameraSet) \o Opt(BOOL) \o Opt(CameraFade) \o Opt(CameraTarget) \o Opt(BOOL)
  \o Opt(CameraFov)

CameraInstruction(spline) ==
  Pass(CameraHead) \o Pass(F("has spline", BOOL)) \o When("has spline", {1}, spline)
=============================================================================
