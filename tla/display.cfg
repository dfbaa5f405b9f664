SPECIFICATION DisplaySpec
CONSTANTS
    Videos <- MCVideos
    MaxSide = 10
    Screen <- MCScreen
    FirstWindow <- MCFirstWindow
INVARIANTS
    TouchesWhatIsShown
    FramesFitUnlessFailed
