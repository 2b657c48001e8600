----------------------------- MODULE DirtyTiles -----------------------------
(***************************************************************************)
(* zs407_dirty_tiles of modern/core/zs407_ui_model.c: a bitmap of the tiles *)
(* of the screen to be drawn again.  Rectangles make tiles dirty, and each  *)
(* pop hands out the first dirty one, to be drawn.  A bit of the bitmap is  *)
(* its number; the last word has bits that belong to no tile.               *)
(*                                                                          *)
(* One pixel of the screen, any one, is watched: it is stale from the call  *)
(* that invalidates it until a pop hands out its tile.                      *)
(***************************************************************************)
EXTENDS Integers, FiniteSetsExt

CONSTANTS Width, Height,      \* ZS407_UI_WIDTH and _HEIGHT, in pixels
          TileSize,           \* ZS407_UI_TILE_SIZE
          WordBits,           \* 32
          RectangleCorners,   \* where the callers' rectangles begin
          RectangleSides      \* how long their sides are

TileColumns == Width \div TileSize
TileCount == TileColumns * (Height \div TileSize)
TileWords == (TileCount + WordBits - 1) \div WordBits

\* The screen is made of whole tiles, which do not fill the last word
\* (zs407_ui_model.h:7-13).
ASSUME TilesAssumption ==
  /\ Width \in Nat \ {0} /\ Height \in Nat \ {0}
  /\ TileSize \in Nat \ {0} /\ WordBits \in Nat \ {0}
  /\ Width % TileSize = 0 /\ Height % TileSize = 0
  /\ TileCount % WordBits # 0
  /\ RectangleCorners \subseteq Int /\ RectangleSides \subseteq Int

VARIABLES words,     \* the bits set in the bitmap
          watched,   \* a pixel
          stale      \* history: it was invalidated and not drawn since

tileVars == <<words, watched, stale>>

Bits == 0..(TileWords * WordBits - 1)
WordOf(bit) == bit \div WordBits
Pixels == [x : 0..(Width - 1), y : 0..(Height - 1)]
TileOf(pixel) == (pixel.y \div TileSize) * TileColumns + pixel.x \div TileSize
Rectangles == [x : RectangleCorners, y : RectangleCorners,
               width : RectangleSides, height : RectangleSides]

Inside(pixel, r) == /\ r.x <= pixel.x /\ pixel.x < r.x + r.width
                    /\ r.y <= pixel.y /\ pixel.y < r.y + r.height

TilesInit == words = {} /\ watched \in Pixels /\ stale = FALSE

\* zs407_dirty_tiles_clear
Clear == words' = {} /\ stale' = FALSE /\ UNCHANGED watched

\* zs407_dirty_tiles_all: all words, the last one masked
InvalidateAll ==
  /\ words' = {b \in Bits : WordOf(b) = TileWords - 1 => b % WordBits < TileCount % WordBits}
  /\ stale' = TRUE /\ UNCHANGED watched

OffScreen(r) == \/ r.width <= 0 \/ r.height <= 0 \/ r.x >= Width \/ r.y >= Height
                \/ r.x + r.width <= 0 \/ r.y + r.height <= 0

\* The tiles between the first and the last one, the last not included.
SpanExclusive(from, length, limit) ==
  (Max({from, 0}) \div TileSize)..(Min({from + length, limit}) \div TileSize - 1)

\* the columns or rows of tiles that length pixels from here meet
Span(from, length, limit) ==
  (Max({from, 0}) \div TileSize)..((Min({from + length, limit}) - 1) \div TileSize)

\* zs407_dirty_tiles_invalidate
Invalidate(r) ==
  /\ words' = IF OffScreen(r) THEN words
              ELSE words \cup {row * TileColumns + column :
                                 row \in Span(r.y, r.height, Height),
                                 column \in Span(r.x, r.width, Width)}
  /\ stale' = (stale \/ Inside(watched, r))
  /\ UNCHANGED watched

\* zs407_dirty_tiles_pop: the lowest bit of the first word that is not zero.
Pop == /\ words # {}
       /\ LET tile_index == Min(words)
          IN /\ words' = words \ {tile_index}
             /\ stale' = (stale /\ tile_index # TileOf(watched))
       /\ UNCHANGED watched

TilesNext == \/ Clear \/ InvalidateAll \/ Pop
             \/ \E r \in Rectangles : Invalidate(r)

TilesSpec == TilesInit /\ [][TilesNext]_tileVars

-----------------------------------------------------------------------------
(* Properties.                                                               *)

\* Every part of the screen that was invalidated will be drawn, wherever the
\* rectangles were clipped: its tile is dirty until it is handed out
\* (zs407_ui_model.c:35-55).
StaleIsDirty == stale => TileOf(watched) \in words
=============================================================================
