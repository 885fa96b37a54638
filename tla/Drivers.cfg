SPECIFICATION Spec
CONSTANTS
    Sectors = {1, 2}
    Items = {"a"}
    Far = {2}
    Timers = {"TIM5"}
INVARIANTS Types HandlersFindFlash CacheNeverShowsErased
PROPERTIES FlashSpec SilentUnlessLive TimersFire
