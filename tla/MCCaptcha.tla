------------------------------ MODULE MCCaptcha ------------------------------
(* Payloads for the captcha solver: none to three candidates, with and       *)
(* without a number of attempts, overlapping swaps, a grid of one tile, a    *)
(* tile number one too large and a negative one.                             *)
EXTENDS Captcha

MCPayloads == {
    <<2, 0>>,
    <<0, 1, 2>>,
    <<2, 1, 3>>,
    <<1, 0, 0, 0, 0>>,
    <<2, 0, 1, 1, 2, 2, 3, 2>>,
    <<2, 0, 1, 0, 1, 3, 0, 0>>,
    <<2, 0, 1, 0, 4>>,
    <<2, 0, 1, 2, -1>>,
    <<3, 0, 8, 8, 4, 1>>}

=============================================================================
