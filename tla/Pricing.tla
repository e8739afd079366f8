------------------------------- MODULE Pricing -------------------------------
(***************************************************************************)
(* gateway/pricing.py: what a request costs on Dexa and on the model it    *)
(* replaces, by the image tokens each provider bills.  The sizes of the    *)
(* code (28-pixel patches, 2048 by 768 pixels, 512-pixel tiles...) are     *)
(* constants, so that they can be scaled down together; square roots and   *)
(* quotients are compared exactly where the code rounds floats.            *)
(***************************************************************************)
EXTENDS Integers, Sequences, FiniteSetsExt

CONSTANTS
    Factor,         \* patch * merge
    MaxPixels,      \* the pixel budgets of qwen_vision_tokens
    MinPixels,
    LongSide,       \* 2048, 768 and 512 of _openai_tiles
    ShortSide,
    Tile,
    PixelCap,       \* 1_150_000 and 750 of anthropic_image_tokens
    PixelsPerToken,
    BaseTokens,     \* tokens per image and per tile, of either OpenAI model
    TileTokens,
    Prices,         \* PRICES: [in, out] of each model
    Schemes,        \* _SCHEME
    Sides           \* widths and heights of the screens considered

Ours == "dexa-cua-vlm"

ASSUME PricingAssumption ==
    /\ \A n \in {Factor, MaxPixels, MinPixels, LongSide, ShortSide, Tile, PixelCap,
                 PixelsPerToken} : n \in Nat \ {0}
    /\ MinPixels <= Factor * Factor
    /\ DOMAIN Schemes = DOMAIN Prices /\ Ours \in DOMAIN Prices
    /\ \A m \in DOMAIN Prices :
          /\ Prices[m] \in [in : Nat, out : Nat]
          /\ Schemes[m] \in {"qwen", "openai", "openai_mini", "anthropic"}
    /\ Prices[Ours].in > 0
    /\ \A s \in {"openai", "openai_mini"} : BaseTokens[s] \in Nat /\ TileTokens[s] \in Nat
    /\ Sides \subseteq Nat

(* round(a / b), ties to even; ceil(a / b) *)
Rounded(a, b) ==
    LET q == a \div b
        r == 2 * (a % b)
    IN  IF r > b \/ (r = b /\ q % 2 = 1) THEN q + 1 ELSE q

Ceiling(a, b) == (a + b - 1) \div b

(* floor, ceil and round of the square root of a / b, below n *)
FloorRoot(a, b, n) == CHOOSE k \in 0 .. n : k * k * b <= a /\ (k + 1) * (k + 1) * b > a
CeilRoot(a, b, n) == CHOOSE k \in 0 .. n : k * k * b >= a /\ (k = 0 \/ (k - 1) * (k - 1) * b < a)
RoundRoot(a, b, n) ==
    LET k == FloorRoot(a, b, n)
        far == (2 * k + 1) * (2 * k + 1) * b
    IN  IF far < 4 * a \/ (far = 4 * a /\ k % 2 = 1) THEN k + 1 ELSE k

-----------------------------------------------------------------------------
(* Blocks of Factor by Factor pixels along a side of n of an n by m screen:*)
(* rounded, or after scaling the screen down or up to a pixel budget       *)
Blocks(n) == Max({1, Rounded(n, Factor)})
BlocksDown(n, m) == Max({1, FloorRoot(n * MaxPixels, m * Factor * Factor, n)})
BlocksUp(n, m) == CeilRoot(n * MinPixels, m * Factor * Factor, n * MinPixels)

qwen_vision_tokens(w, h) ==
    LET pixels == Blocks(h) * Blocks(w) * Factor * Factor
    IN  CASE w = 0 \/ h = 0 -> 0
          [] w > 0 /\ h > 0 /\ pixels > MaxPixels -> BlocksDown(h, w) * BlocksDown(w, h)
          [] w > 0 /\ h > 0 /\ pixels < MinPixels -> BlocksUp(h, w) * BlocksUp(w, h)
          [] OTHER -> Blocks(h) * Blocks(w)

(* a screen scaled so that the side of length `side' gets length `to' *)
Scaled(screen, side, to) == <<Rounded(screen[1] * to, side), Rounded(screen[2] * to, side)>>

(* _openai_tiles: the long side first, then the short side of the result *)
OpenAITiles(w, h) ==
    LET s == IF Max({w, h}) > LongSide THEN Scaled(<<w, h>>, Max({w, h}), LongSide) ELSE <<w, h>>
        t == IF Min({s[1], s[2]}) > ShortSide
             THEN Scaled(s, Min({s[1], s[2]}), ShortSide) ELSE s
    IN  Ceiling(t[1], Tile) * Ceiling(t[2], Tile)

openai_image_tokens(w, h, scheme) == BaseTokens[scheme] + TileTokens[scheme] * OpenAITiles(w, h)

anthropic_image_tokens(w, h) ==
    LET scaled == <<RoundRoot(w * PixelCap, h, w), RoundRoot(h * PixelCap, w, h)>>
        s == IF w * h > PixelCap THEN scaled ELSE <<w, h>>
    IN  Ceiling(s[1] * s[2], PixelsPerToken)

image_tokens(model, w, h) ==
    CASE Schemes[model] = "qwen" -> qwen_vision_tokens(w, h)
      [] Schemes[model] \in {"openai", "openai_mini"} -> openai_image_tokens(w, h, Schemes[model])
      [] Schemes[model] = "anthropic" -> anthropic_image_tokens(w, h)

request_cost(model, images, text, out) ==
    LET tokens == SumFunction([i \in DOMAIN images |->
                                  image_tokens(model, images[i][1], images[i][2])])
    IN  [image_tokens |-> tokens,
         usd |-> (tokens + text) * Prices[model].in + out * Prices[model].out]

(* compare; saved_pct in whole per cents, x_cheaper only where it is finite *)
compare(images, text, out, baseline) ==
    LET ours == request_cost(Ours, images, text, out)
        base == request_cost(baseline, images, text, out)
        saved == base.usd - ours.usd
    IN  [ours |-> ours, baseline |-> base, saved_usd |-> saved,
         saved_pct |-> IF base.usd > 0 THEN (100 * saved) \div base.usd ELSE 0,
         finite |-> ours.usd > 0]

-----------------------------------------------------------------------------
Screens == Sides \X Sides

Turned(screen) == <<screen[2], screen[1]>>

(* What a screen is billed is bounded whatever its size: Dexa's blocks fit *)
(* the pixel budget ("under the pixel budget", qwen_vision_tokens) unless  *)
(* the screen is so narrow that a side is held at one block; OpenAI's      *)
(* tiles fit 2048 by 768 pixels although each scaling rounds (a very       *)
(* narrow screen to no tile at all); Claude's tokens its cap, up to one    *)
(* pixel of rounding on each side.  A screen and the same screen turned    *)
(* cost the same, a second one never makes a request cheaper, and the      *)
(* percentage saved never exceeds 100.                                     *)
PricesAreBounded ==
    \A s \in Screens : s[1] > 0 /\ s[2] > 0 =>
        /\ LET n == qwen_vision_tokens(s[1], s[2]) IN
           /\ n >= 1
           /\ n * Factor * Factor <= MaxPixels
              \/ 1 \in {BlocksDown(s[1], s[2]), BlocksDown(s[2], s[1])}
        /\ OpenAITiles(s[1], s[2]) \in 0 .. Ceiling(LongSide, Tile) * Ceiling(ShortSide, Tile)
        /\ anthropic_image_tokens(s[1], s[2])
              <= Ceiling(PixelCap + s[1] + s[2], PixelsPerToken)
        /\ \A m \in DOMAIN Prices :
              /\ image_tokens(m, s[1], s[2]) = image_tokens(m, s[2], s[1])
              /\ LET one == compare(<<s>>, 1, 1, m)
                     two == compare(<<s, Turned(s)>>, 1, 1, m)
                 IN  /\ two.ours.usd >= one.ours.usd /\ two.baseline.usd >= one.baseline.usd
                     /\ one.saved_pct <= 100 /\ one.finite
                     /\ m = Ours => one.saved_usd = 0
=============================================================================
