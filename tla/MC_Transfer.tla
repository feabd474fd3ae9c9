---------------------------- MODULE MC_Transfer ----------------------------
(* Small instances of Transfer for TLC.                                    *)
EXTENDS Transfer

CONSTANTS a, b, nul

AllModes == Mode
GlibcClients == [sender : {"server"}, sleepClears : {FALSE}, mayFill : BOOLEAN]
FaithfulFetches == [sender : {"server"}, sleepClears : {TRUE}, mayFill : {FALSE}]

(* Empty, below a block, a single 0, a block, and beyond.                  *)
SomeFiles == {<<>>, <<a>>, <<nul>>, <<a, b>>, <<a, b, a>>}
OneFile == {<<a>>}
BigFiles == {<<a>>, <<b, b, a>>}
=============================================================================
