------------------------------ MODULE MCTiling ------------------------------
(* Devices as they are met: the Vulkan minimums, VideoCore VII, a wide one  *)
(* with a short second axis, one too narrow to use, and a driver that       *)
(* reports a limit of zero.                                                 *)
EXTENDS Tiling

MCDevices ==
  {[shared |-> 16384, invocations |-> 128, sizeX |-> 128, sizeY |-> 128],
   [shared |-> 16384, invocations |-> 256, sizeX |-> 256, sizeY |-> 256],
   [shared |-> 32768, invocations |-> 1024, sizeX |-> 1024, sizeY |-> 64],
   [shared |-> 16384, invocations |-> 128, sizeX |-> 128, sizeY |-> 8],
   [shared |-> 16384, invocations |-> 0, sizeX |-> 128, sizeY |-> 128]}

MCTileShapes == {<<8, 16>>, <<4, 64>>, <<128, 1>>, <<3, 16>>}
=============================================================================
