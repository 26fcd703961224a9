------------------------------- MODULE Colours -------------------------------
(****************************************************************************)
(* Colours, from the notation of CSS to a contrast ratio                    *)
(* (analysis/css/color.ts), for the greys: where the channels are equal,    *)
(* every notation is a level and an alpha. A level is a number of 64ths of  *)
(* full light, an alpha a number of quarters.                               *)
(*                                                                          *)
(* A notation is [fn, comps, alpha, parts]: a name or a function, its       *)
(* components, what follows a slash, and the two sides of a color-mix. A    *)
(* component is [n, unit]: a percentage, a plain number (64ths of its       *)
(* range, quarters for an alpha), "none", or "" when it is not there.       *)
(****************************************************************************)
EXTENDS Naturals, Integers, Sequences, FiniteSets

CONSTANT Notations    \* [text -> notation], the colours that are written

Full  == 64    \* a channel of 255
Solid == 4     \* an alpha of 1

Colour(v, a) == [v |-> v, a |-> a]
NoColour == [v |-> -1, a |-> 0]
White == Colour(Full, Solid)
Black == Colour(0, Solid)

\* NAMED: the names whose channels are equal, those that fall on a 64th.
Named(name) ==
    CASE name = "transparent" -> Colour(0, 0)
      [] name = "black" -> Black
      [] name = "gray"  -> Colour(32, Solid)
      [] name = "silver" -> Colour(48, Solid)
      [] name = "white" -> White

Between(x, lo, hi) == IF x < lo THEN lo ELSE IF x > hi THEN hi ELSE x

Num(c, scale) ==
    CASE c.unit = "none" -> 0
      [] c.unit = "%" -> (c.n * scale) \div 100
      [] OTHER -> c.n

AlphaOf(c) ==
    CASE c.unit = "none" -> 0
      [] c.unit = "" -> Solid
      [] OTHER -> Between(Num(c, Solid), 0, Solid)

\* rgb() and hsl() also take their alpha as a fourth component.
LegacyAlpha(x) ==
    IF x.alpha.unit # "" THEN AlphaOf(x.alpha)
    ELSE IF Len(x.comps) >= 4 THEN AlphaOf(x.comps[4]) ELSE Solid

\* An hsl without saturation is its lightness; a number without % is a share
\* of 1, and all light above it.
Lightness(c) == Between(IF c.unit = "%" THEN Num(c, Full) ELSE c.n * Full, 0, Full)

\* A whiteness and a blackness that leave no room for the hue.
Grey(w, b) == (w * Full) \div (w + b)

\* Shares of the two sides of a mix, in percent, before they are brought back
\* to a whole; -1 for a share that is not written.
Shares(p, q) ==
    CASE p = -1 /\ q = -1 -> <<50, 50>>
      [] p = -1 -> <<100 - q, q>>
      [] q = -1 -> <<p, 100 - p>>
      [] OTHER -> <<p, q>>

Mix(c, d, p, q) ==
    LET w   == Shares(p, q)
        sum == IF w[1] + w[2] = 0 THEN 100 ELSE w[1] + w[2]
        of(x, y) == (x * w[1] + y * w[2]) \div sum
    IN Colour(of(c.v, d.v), Between(of(c.a, d.a), 0, Solid))

RECURSIVE ParseColor(_)
ParseColor(text) ==
    IF text \notin DOMAIN Notations THEN NoColour
    ELSE LET x == Notations[text]
             c(i) == x.comps[i]
         IN CASE x.fn = "name" -> Named(text)
              [] x.fn = "#"    -> Colour(c(1).n, IF Len(x.comps) = 2 THEN c(2).n ELSE Solid)
              [] x.fn = "rgb"  -> Colour(Between(Num(c(1), Full), 0, Full), LegacyAlpha(x))
              [] x.fn = "hsl"  -> Colour(Lightness(c(3)), LegacyAlpha(x))
              [] x.fn = "hwb"  -> Colour(Grey(c(2).n, c(3).n), AlphaOf(x.alpha))
              [] x.fn = "color" -> Colour(Between(Num(c(1), Full), 0, Full), AlphaOf(x.alpha))
              [] x.fn = "color-mix" ->
                   LET one == ParseColor(x.parts[1])
                       two == ParseColor(x.parts[2])
                   IN IF NoColour \in {one, two} THEN NoColour
                      ELSE Mix(one, two, c(1).n, c(2).n)
              [] OTHER -> NoColour

IsTransparent(c) == c.a <= 0

Faded(c, opacity) == [c EXCEPT !.a = (@ * opacity) \div Solid]

\* src over an opaque dst.
BlendOver(src, dst) ==
    Colour((src.v * src.a + dst.v * (Solid - src.a)) \div Solid, Solid)

\* Relative luminance of each level, in ten-thousandths.
Luminance == <<
    0, 12, 24, 37, 52, 70, 91, 115, 143, 175, 211, 250, 293, 341, 393, 448,
      509, 574, 643, 717, 796, 879, 968, 1062, 1160, 1264, 1373, 1487,
      1607, 1732, 1862, 1999, 2140, 2288, 2441, 2600, 2765, 2936, 3113,
      3296, 3485, 3680, 3882, 4090, 4304, 4525, 4752, 4985, 5225, 5472,
      5725, 5985, 6252, 6526, 6807, 7094, 7388, 7690, 7998, 8314, 8637,
      8967, 9304, 9648, 10000 >>

RelativeLuminance(c) == Luminance[c.v + 1]

\* A ratio as a fraction, both terms with the 0.05 of WCAG.
ContrastRatio(fg, bg) ==
    LET a == RelativeLuminance(fg) + 500
        b == RelativeLuminance(bg) + 500
    IN IF a >= b THEN <<a, b>> ELSE <<b, a>>

\* bound in tenths.
AtLeast(ratio, bound) == 10 * ratio[1] >= bound * ratio[2]
Lower(r, s) == r[1] * s[2] < s[1] * r[2]
=============================================================================
