------------------------------- MODULE MCRender2d ------------------------------
(* Two windows, two places and sizes, every quarter turn about two pivots. *)
EXTENDS Render2d

MCWindow == {<<4, 3>>, <<1, 1>>}
MCPlace == {<<0, 0>>, <<3, -1>>}
MCSize == {<<2, 1>>, <<1, 3>>}
MCPivot == {<<0, 0>>, <<1, 2>>}
================================================================================
