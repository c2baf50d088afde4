-------------------------- MODULE MCRoomSupervisor --------------------------
\* Small rooms for TLC.
EXTENDS RoomSupervisor
=============================================================================
