---------------------------- MODULE MCRangeStore ----------------------------
(* Range store over five keys: enough for a split with both halves        *)
(* non-empty next to another range, and for multi-range merges.  Slots   *)
(* for copy_range_keys: none usable (1), one range (2, 3) and two (4).     *)
EXTENDS RangeStore

MCKeys == 0 .. 4

MCCopySlots == {1, 2, 3, 4}

(* The shrinker's range cut over byte-string keys of up to two bytes with *)
(* bytes 0 .. 2 (keys such as <<1>> < <<1, 0>> < <<2>> share prefixes),   *)
(* up to four items, and BOUNDARY_MIN/MAX scaled to 1 and 3 so that a     *)
(* walk records a boundary, passes a refused one, and hits both limits.   *)
SK == INSTANCE ShrinkKeys WITH ByteMax <- 2, KeyLenMax <- 2, ItemsMax <- 4,
                               ShrinkMin <- 1, ShrinkMax <- 3

(* shrink_around() leaves every remaining item of the range covered and  *)
(* no freed item covered, for keys whose key_inc/key_dec skip prefixes.  *)
(* It quantifies over its own trees and ranges, so it is checked once, in *)
(* the initial state.                                                      *)
ShrinkCutExact == last.op = "none" => SK!ShrinkCutExact
=============================================================================
