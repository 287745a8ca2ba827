SPECIFICATION Spec
CONSTANTS
    CompareWidths = {1, 3, 4, 7, 12, 14, 16, 18, 21, 26, 32, 47}
    CompareHeights = {1, 16, 18, 35}
    ChangeColumns = {0, 2, 3, 5, 12, 13, 15, 16, 17, 20, 31, 32, 46}
    ChangeRows = {0, 15, 16, 17, 34}
    Pitch = 44
    Lines = 3
    Sizes <- MCSizes
    Shifts <- MCShifts
    Samples = {0, 1, 128, 200, 255}
    WalkWidths = {1, 2, 31, 33, 34, 64, 67}
    WalkHeights = {1, 2, 3, 4}
    Slack = {0, 3}
    WalkKernels = {"ycocg_enc", "ycocg_dec", "ycocg_enc_sse2", "ycocg_dec_sse2", "ycocg_enc_neon", "ycocg_dec_neon", "ycocg16_enc", "ycocg16_dec", "a710_enc", "a710_dec", "multiply", "unmultiply", "ycbcr_enc", "ycbcr_dec", "halide16_enc", "halide16_dec", "halide_enc", "halide_dec"}
    Threads = {t1, t2}
    WithSimd = TRUE
    WithHalide = TRUE
    ForceNone = TRUE
    ProbeWays = {"x64", "x86", "arm"}
    MaxOverrides = 1
INVARIANTS ChangesReported BlockArrives ColorsKept SamePixel TableComplete
PROPERTY CrashNeedsTwo
CHECK_DEADLOCK FALSE
